---- MODULE Spec2Model ----
(***************************************************************************)
(* docgest ingestion core: the Orchestrator (bounded queue, worker pool,   *)
(* sweeper, Stop), Submit, and the per-job pipeline Worker.Process with    *)
(* its extraction and storage fan-out, over an abstract pathstore and LLM. *)
(***************************************************************************)
EXTENDS Integers, Sequences, FiniteSets, TLC

\* ---------------------------------------------------------------- bounds
\* submissions, and failures the LLM and pathstore return under a live
\* context, in one run of each scenario
PoolJobs == 2
SeqJobs == 2
AdmitJobs == 3
SeqFaults == 1
SoloFaults == 3
MaxWorkers == 2
NarrowFaults == 1

\* ------------------------------------------------------- program constants
MaxRetries == 3

\* job identities: as many as the largest run submits
Jobs == 1..(CHOOSE n \in {1, PoolJobs, SeqJobs, AdmitJobs} :
              \A m \in {1, PoolJobs, SeqJobs, AdmitJobs} : m <= n)
Workers == 1..MaxWorkers

AllDocs == {"bad_ext", "corrupt", "blank", "short", "long"}

\* The runs explored. cfg is the configuration NewOrchestrator is given
\* (cfg.WorkerCount, cfg.MaxQueueSize, cfg.MaxConcurrentExtract,
\* cfg.MaxConcurrentStore); env bounds what the outside world does in the run:
\* how many jobs are submitted, which documents, how many calls fail while the
\* context is live, and whether a job's TTL can run out during the run.
Scenarios ==
  { \* a pool of two workers racing on one-chunk documents
    [cfg |-> [workerCount |-> 2, maxQueueSize |-> 1, maxConcurrentExtract |-> 1, maxConcurrentStore |-> 1],
     env |-> [jobs |-> PoolJobs, users |-> {"u1"}, docs |-> {"short"}, faults |-> 0, expiry |-> FALSE]],
    \* one worker, jobs one after the other, any document, fan-out of two
    [cfg |-> [workerCount |-> 1, maxQueueSize |-> 1, maxConcurrentExtract |-> 2, maxConcurrentStore |-> 2],
     env |-> [jobs |-> SeqJobs, users |-> {"u1", "u2"}, docs |-> {"short"}, faults |-> SeqFaults, expiry |-> FALSE]],
    \* admission: more submissions than queue and worker can hold
    [cfg |-> [workerCount |-> 1, maxQueueSize |-> 1, maxConcurrentExtract |-> 1, maxConcurrentStore |-> 1],
     env |-> [jobs |-> AdmitJobs, users |-> {"u1"}, docs |-> {"blank", "bad_ext"}, faults |-> 0, expiry |-> FALSE]],
    \* one job under repeated failures, with TTL expiry
    [cfg |-> [workerCount |-> 1, maxQueueSize |-> 1, maxConcurrentExtract |-> 2, maxConcurrentStore |-> 2],
     env |-> [jobs |-> 1, users |-> {"u1"}, docs |-> AllDocs, faults |-> SoloFaults, expiry |-> TRUE]],
    \* one two-chunk job through fan-outs of width one
    [cfg |-> [workerCount |-> 1, maxQueueSize |-> 1, maxConcurrentExtract |-> 1, maxConcurrentStore |-> 1],
     env |-> [jobs |-> 1, users |-> {"u1"}, docs |-> {"long"}, faults |-> NarrowFaults, expiry |-> FALSE]] }

Users == {"u1", "u2"}


\* parser.ForFile / Parser.Parse outcome for a document
ParseOutcome(d) ==
  CASE d = "bad_ext" -> "unsupported"
    [] d = "corrupt" -> "parse_error"
    [] OTHER -> "ok"

\* len(chunker.ChunkTree(tree, cfg)) for a document
NumChunks(d) ==
  CASE d = "short" -> 1
    [] d = "long" -> 2
    [] OTHER -> 0

\* ContentHashHex(flattenTreeText(tree)): injective on the parsed text
ContentHash(d) == <<"sha256", d>>

\* docID the ingest handler derives from the file bytes
DocIDOf(d) == <<"doc", d>>

\* ------------------------------------------------------------------ facts
\* A fact text is a sequence of runs <<c, n>>, n >= 1 times the character c:
\* "a" a letter of one byte, " " a space, "E" a letter of two bytes in UTF-8,
\* "I" an occurrence of a phrase of injectionPattern (the 8 letters of
\* "override").
Run(c, n) == <<c, n>>
Width(c) == IF c = "E" THEN 2 ELSE IF c = "I" THEN 8 ELSE 1
Runes(c) == IF c = "I" THEN 8 ELSE 1

\* len(text): the number of bytes
RECURSIVE ByteLen(_)
ByteLen(s) == IF s = <<>> THEN 0 ELSE Width(Head(s)[1]) * Head(s)[2] + ByteLen(Tail(s))

\* the number of characters
RECURSIVE RuneLen(_)
RuneLen(s) == IF s = <<>> THEN 0 ELSE Runes(Head(s)[1]) * Head(s)[2] + RuneLen(Tail(s))

\* strings.TrimSpace
RECURSIVE TrimSpace(_)
TrimSpace(s) ==
  IF s = <<>> THEN s
  ELSE IF Head(s)[1] = " " THEN TrimSpace(Tail(s))
  ELSE IF s[Len(s)][1] = " " THEN TrimSpace(SubSeq(s, 1, Len(s) - 1))
  ELSE s

\* injectionPattern.MatchString
MatchInjection(s) == \E k \in DOMAIN s : s[k][1] = "I"

MinText == 3
MaxText == 300
MinSalience == 10      \* 0.01, in thousandths
MaxSalience == 1000    \* 1.0, in thousandths
MaxTrust == 10
MaxTopics == 3

\* f == nil
NilFact == [present |-> FALSE]

GoodFact ==
  [present |-> TRUE, text |-> <<Run("a", 3)>>, category |-> "preference",
   salience |-> 800, minTrust |-> 3, topics |-> <<"t1">>]
InjectedFact ==
  [present |-> TRUE, text |-> <<Run("I", 1), Run(" ", 1), Run("a", 1)>>, category |-> "entity_fact",
   salience |-> 500, minTrust |-> 0, topics |-> <<>>]

ValidCategories == {"entity_fact", "preference", "topic_knowledge", "procedure"}

\* the value ValidateFact returns
Valid(f) ==
  /\ f.present
  /\ LET text == TrimSpace(f.text) IN
       /\ ~(ByteLen(text) < MinText \/ ByteLen(text) > MaxText)
       /\ f.category \in ValidCategories
       /\ ~MatchInjection(text)
  /\ ~(f.salience < MinSalience \/ f.salience > MaxSalience)

\* Clamp that cuts min_trust down to the upper bound
ClampToBound(f) ==
  [f EXCEPT !.minTrust = IF @ < 0 THEN 0 ELSE IF @ > MaxTrust THEN MaxTrust ELSE @,
            !.topics = IF Len(@) > MaxTopics THEN SubSeq(@, 1, MaxTopics) ELSE @]

\* what ValidateFact does to a fact that passed the tests
Clamp(f) ==
  [f EXCEPT !.minTrust = IF @ < 0 \/ @ > MaxTrust THEN 0 ELSE @,
            !.topics = IF Len(@) > MaxTopics THEN SubSeq(@, 1, MaxTopics) ELSE @]

\* ValidateFact(&f): the value returned and f afterwards
ValidateFact(f) == [ok |-> Valid(f), f |-> IF Valid(f) THEN Clamp(f) ELSE f]

\* what one successful ExtractFacts call can return
FactLists == { <<>>, <<GoodFact>>, <<InjectedFact>> }

\* the collection loop without the ValidateFact test
ValidatedAll(fs) == fs

\* the facts of one result the collection loop appends to allFacts
Validated(fs) ==
  LET valid == SelectSeq(fs, Valid) IN [k \in DOMAIN valid |-> ValidateFact(valid[k]).f]

\* ------------------------------------------------------------ retry policy
NoErr == "nil"

\* IsRetryable that takes every error for a transient one
IsRetryableAnyError(err) == err # NoErr

IsRetryable(err) == err = "RetryableError"

\* ------------------------------------------------------------------- state
Terminal == {"completed", "failed", "partial", "duplicate_skipped"}

VARIABLES
  cfg,        \* the configuration of this run
  env,        \* what the outside world does in this run
  job,        \* job id -> the Job record (status "none" before it is created)
  store,      \* JobStore: ids of the registered jobs
  queue,      \* o.queue: buffered channel of job ids
  closed,     \* o.queue has been closed
  cancelled,  \* workerCtx has been cancelled
  stopPc,     \* position of Stop: "idle", "cancelled", "closed", "returned"
  submitRes,  \* job id -> how Submit ended: "none", "nil", "error", "panic"; "default" while in the default branch
  proc,       \* worker -> the state of its goroutine and of the Process call
  swExited,   \* the sweeper goroutine has returned
  faults,     \* failures the LLM and pathstore have returned so far (uncancelled calls)
  hashIndex,  \* pathstore: entries documents/by_hash/{hash}/{docID} per user
  obs,        \* job id -> what the job did to the LLM and to pathstore
  del,        \* a run of handleDeleteDocument and the pathstore nodes of its document
  ulid,       \* generateULID's lastTS and lastSeq, the wall clock, the ULIDs issued
  slug,       \* an input of Slugify and the results of applying it once and twice
  chunker,    \* a tree and a config given to ChunkTree, and the chunks returned
  val,        \* a fact given to ValidateFact, the verdicts and the fact after one and two calls
  backoff,    \* an attempt number given to Backoff and what the call came to
  sweep,      \* the JobStore with its jobs' updatedAt, a clock, the sweeper and Stop
  stats,      \* LLMStats: its samples, a clock, the calls of Record and Snapshot under way
  claude      \* ClaudeClient: the retry loop of one chunk and the reply to its last call

\* the state of the orchestrator, its workers and their jobs
pipeline == <<cfg, env, faults, job, store, queue, closed, cancelled, stopPc, submitRes, proc, swExited, hashIndex, obs>>

\* the state of the components exercised on their own
aux == <<del, ulid, slug, chunker, val, backoff, sweep, stats, claude>>

vars == <<pipeline, aux>>

\* a component that takes no part in the run at hand
Off == [pc |-> "off"]


\* ----------------------------------------------------------- Job (job.go)
NoJob ==
  [status |-> "none", phase |-> "", user |-> "", doc |-> "",
   totalChunks |-> 0, chunksProcessed |-> 0, factsValid |-> 0, factsStored |-> 0,
   errors |-> <<>>,
   hist |-> <<>>]          \* every status value written to the job, in order

\* the Job literal the ingest handler builds before Submit
NewJob(u, d) ==
  [NoJob EXCEPT !.status = "queued", !.phase = "queued", !.user = u, !.doc = d,
                !.hist = <<"queued">>]

SetStatus(j, status, phase) ==
  [j EXCEPT !.status = status, !.phase = phase, !.hist = Append(@, status)]
AddError(j, msg) == [j EXCEPT !.errors = Append(@, msg)]
IncrChunksProcessed(j) == [j EXCEPT !.chunksProcessed = @ + 1]
AddFacts(j, valid, stored) == [j EXCEPT !.factsValid = @ + valid, !.factsStored = @ + stored]
SetTotalChunks(j, n) == [j EXCEPT !.totalChunks = n]

\* ------------------------------------------------------------ worker state
IdleProc ==
  [pc |-> "idle", job |-> 0,
   spawned |-> 0, ext |-> <<>>, results |-> <<>>, collected |-> 0, r |-> <<>>,
   allFacts |-> <<>>, hadErrors |-> FALSE,
   sspawned |-> 0, st |-> <<>>, sresults |-> <<>>, scollected |-> 0, storedCount |-> 0]

AbsentProc == [IdleProc EXCEPT !.pc = "absent"]
ExitedProc == [IdleProc EXCEPT !.pc = "exited"]

\* what a job met and did, recorded where it happens:
\*   sawFull    Submit found the queue holding maxQueueSize jobs
\*   listing    how the duplicate-check listing ended: "none", "ok", "error"
\*   seen       whether, when the listing was issued, the hash index held the
\*              entry of a completed job of the same user and content that
\*              stored a fact: "none", "present", "absent"
\*   llmCalls   ExtractFacts calls made; puts: pathstore PUTs issued
\*   chunkErrs  chunks whose goroutine reported an error
\*   putOk, putFail  fact PUTs that succeeded, failed
\*   auxFail    manifest, meta and hash-index PUTs that failed
\*   manifest   entries written under documents/{docID}/facts by this job
\*   returned   the facts the successful ExtractFacts calls returned
\*   passed     how many of the facts returned pass ValidateFact
\*   written    the facts for which storeFact issued its PUT
NoObs == [sawFull |-> FALSE, listing |-> "none", seen |-> "none",
          llmCalls |-> 0, puts |-> 0, chunkErrs |-> 0, putOk |-> 0, putFail |-> 0,
          auxFail |-> 0, manifest |-> 0,
          returned |-> {}, passed |-> 0, written |-> {}]

\* -------------------------------------------------------------------- Init
\* NewOrchestrator followed by Start: workerCount workers and the sweeper run
PipelineInit(sc) ==
  /\ cfg = sc.cfg /\ env = sc.env
  /\ faults = 0
  /\ job = [j \in Jobs |-> NoJob]
  /\ store = {}
  /\ queue = <<>>
  /\ closed = FALSE
  /\ cancelled = FALSE
  /\ stopPc = "idle"
  /\ submitRes = [j \in Jobs |-> "none"]
  /\ proc = [w \in Workers |-> IF w <= cfg.workerCount THEN IdleProc ELSE AbsentProc]
  /\ swExited = FALSE
  /\ hashIndex = {}
  /\ obs = [j \in Jobs |-> NoObs]

Init ==
  /\ \E sc \in Scenarios : PipelineInit(sc)
  /\ del = Off /\ ulid = Off /\ slug = Off /\ chunker = Off /\ val = Off /\ backoff = Off /\ sweep = Off /\ stats = Off /\ claude = Off

\* the pipeline as it stands, untouched, in the runs of a single component
PipelineAtRest == PipelineInit(CHOOSE sc \in Scenarios : sc.env.expiry)

\* what the runs of a single component leave alone
notDel == <<pipeline, ulid, slug, chunker, val, backoff, sweep, stats, claude>>
notUlid == <<pipeline, del, slug, chunker, val, backoff, sweep, stats, claude>>
notSlug == <<pipeline, del, ulid, chunker, val, backoff, sweep, stats, claude>>
notChunker == <<pipeline, del, ulid, slug, val, backoff, sweep, stats, claude>>
notVal == <<pipeline, del, ulid, slug, chunker, backoff, sweep, stats, claude>>
notBackoff == <<pipeline, del, ulid, slug, chunker, val, sweep, stats, claude>>
notSweep == <<pipeline, del, ulid, slug, chunker, val, backoff, stats, claude>>
notStats == <<pipeline, del, ulid, slug, chunker, val, backoff, sweep, claude>>
notClaude == <<pipeline, del, ulid, slug, chunker, val, backoff, sweep, stats>>

\* ------------------------------------------------------------ Orchestrator
\* SubmitSelect over a channel made with one slot too many
SubmitSelectOneMore(isClosed, depth, maxQueueSize) ==
  IF isClosed THEN "panic"
  ELSE IF depth <= maxQueueSize THEN "sent"
  ELSE "full"

\* the select in Submit: a send on a closed channel panics, a send on a
\* channel with room succeeds, otherwise the default branch runs
SubmitSelect(isClosed, depth, maxQueueSize) ==
  IF isClosed THEN "panic"
  ELSE IF depth < maxQueueSize THEN "sent"
  ELSE "full"

\* the ingest handler creates job j for (u, d) and calls Orchestrator.Submit:
\* o.jobs.Put(job), then the select takes its send case or picks default
Submit(j, u, d) ==
  /\ j <= env.jobs /\ u \in env.users /\ d \in env.docs
  /\ job[j].status = "none"
  /\ \A i \in Jobs : i < j => job[i].status # "none"
  /\ store' = store \cup {j}
  /\ LET sel == SubmitSelect(closed, Len(queue), cfg.maxQueueSize) IN
       /\ queue' = IF sel = "sent" THEN Append(queue, j) ELSE queue
       /\ job' = [job EXCEPT ![j] = NewJob(u, d)]
       /\ submitRes' = [submitRes EXCEPT ![j] =
                          CASE sel = "sent" -> "nil"
                            [] sel = "full" -> "default"
                            [] OTHER -> "panic"]
  /\ obs' = [obs EXCEPT ![j].sawFull = Len(queue) >= cfg.maxQueueSize]
  /\ UNCHANGED <<aux, cfg, env, faults, closed, cancelled, stopPc, proc, swExited, hashIndex>>

\* the default branch of Submit's select: SetStatus(failed, "queue_full") and
\* the error return
SubmitDefault(j) ==
  /\ submitRes[j] = "default"
  /\ job' = [job EXCEPT ![j] = SetStatus(@, "failed", "queue_full")]
  /\ submitRes' = [submitRes EXCEPT ![j] = "error"]
  /\ UNCHANGED <<aux, cfg, env, faults, store, queue, closed, cancelled, stopPc, proc, swExited, hashIndex, obs>>

\* Stop, first statement: o.cancel()
StopCancel ==
  /\ stopPc = "idle"
  /\ stopPc' = "cancelled"
  /\ cancelled' = TRUE
  /\ UNCHANGED <<aux, cfg, env, faults, job, store, queue, closed, submitRes, proc, swExited, hashIndex, obs>>

\* Stop, second statement: close(o.queue)
StopClose ==
  /\ stopPc = "cancelled"
  /\ stopPc' = "closed"
  /\ closed' = TRUE
  /\ UNCHANGED <<aux, cfg, env, faults, job, store, queue, cancelled, submitRes, proc, swExited, hashIndex, obs>>

\* o.wg counts the worker goroutines and the sweeper
WaitGroupDone ==
  /\ swExited
  /\ \A w \in Workers : proc[w].pc \in {"absent", "exited"}

\* Stop without o.wg.Wait()
StopReturnNoWait ==
  /\ stopPc = "closed"
  /\ stopPc' = "returned"
  /\ UNCHANGED <<aux, cfg, env, faults, job, store, queue, closed, cancelled, submitRes, proc, swExited, hashIndex, obs>>

\* Stop, third statement: o.wg.Wait() returns
StopReturn ==
  /\ stopPc = "closed"
  /\ WaitGroupDone
  /\ stopPc' = "returned"
  /\ UNCHANGED <<aux, cfg, env, faults, job, store, queue, closed, cancelled, submitRes, proc, swExited, hashIndex, obs>>

\* worker loop, case <-workerCtx.Done(), or a receive from the closed and
\* drained queue (ok = false)
WorkerExit(w) ==
  /\ proc[w].pc = "idle"
  /\ cancelled \/ (closed /\ queue = <<>>)
  /\ proc' = [proc EXCEPT ![w] = ExitedProc]
  /\ UNCHANGED <<aux, cfg, env, faults, job, store, queue, closed, cancelled, stopPc, submitRes, swExited, hashIndex, obs>>

\* WorkerDequeue that reads the head of the queue without taking it
WorkerDequeueNoRemove(w) ==
  /\ proc[w].pc = "idle"
  /\ queue # <<>>
  /\ LET j == Head(queue) IN
       /\ queue' = queue
       /\ proc' = [proc EXCEPT ![w] = [IdleProc EXCEPT !.pc = "parse", !.job = j]]
       /\ job' = [job EXCEPT ![j] = SetStatus(@, "parsing", "parsing")]
  /\ UNCHANGED <<aux, cfg, env, faults, store, closed, cancelled, stopPc, submitRes, swExited, hashIndex, obs>>

\* worker loop, case job := <-o.queue, and the first statement of Process
WorkerDequeue(w) ==
  /\ proc[w].pc = "idle"
  /\ queue # <<>>
  /\ LET j == Head(queue) IN
       /\ queue' = Tail(queue)
       /\ proc' = [proc EXCEPT ![w] = [IdleProc EXCEPT !.pc = "parse", !.job = j]]
       /\ job' = [job EXCEPT ![j] = SetStatus(@, "parsing", "parsing")]
  /\ UNCHANGED <<aux, cfg, env, faults, store, closed, cancelled, stopPc, submitRes, swExited, hashIndex, obs>>

\* sweeper, case <-ticker.C: o.jobs.Cleanup() drops the jobs whose TTL ran out
SweeperTick ==
  /\ ~swExited
  /\ \E expired \in (IF env.expiry THEN SUBSET store ELSE {{}}) :
       store' = store \ expired
  /\ UNCHANGED <<aux, cfg, env, faults, job, queue, closed, cancelled, stopPc, submitRes, proc, swExited, hashIndex, obs>>

\* sweeper, case <-workerCtx.Done()
SweeperExit ==
  /\ ~swExited
  /\ cancelled
  /\ swExited' = TRUE
  /\ UNCHANGED <<aux, cfg, env, faults, job, store, queue, closed, cancelled, stopPc, submitRes, proc, hashIndex, obs>>

\* ------------------------------------------------- external collaborators
\* the returns of ClaudeClient.ExtractFacts: facts; a RetryableError (429,
\* 5xx); a plain error for another status or an unreadable answer
\* ("permanent"); the plain error wrapping the transport error of
\* httpClient.Do, which is the client's timeout ("timeout") or, once the
\* context is cancelled, the context's error
ExtractFacts(ctxCancelled, mayFail) ==
  IF ctxCancelled
  THEN { [err |-> "context canceled", facts |-> <<>>] }
  ELSE { [err |-> NoErr, facts |-> fs] : fs \in FactLists }
       \cup { [err |-> e, facts |-> <<>>] :
                e \in IF mayFail THEN {"RetryableError", "permanent", "timeout"} ELSE {} }

\* the returns of a pathstore call (PutNode, ListChildren): nil or an error;
\* a call made with a cancelled context fails
PathstoreCall(ctxCancelled, mayFail) ==
  IF ctxCancelled THEN {"context canceled"}
  ELSE IF mayFail THEN {NoErr, "error"} ELSE {NoErr}

\* the environment may still fail a call of this run
MayFail == faults < env.faults

\* a failure of a call made under a live context uses up one of the failures
Charge(err) == IF err # NoErr /\ ~cancelled THEN faults + 1 ELSE faults

\* ---------------------------------------------------------- Worker.Process
JobOf(w) == proc[w].job
DocOf(w) == job[JobOf(w)].doc

\* Process returns: the worker goes back to its select
Return(w) == [proc EXCEPT ![w] = IdleProc]

\* Parse that records no error entry when the parser fails
ParseNoAddError(w) ==
  /\ proc[w].pc = "parse"
  /\ proc' = [proc EXCEPT ![w].pc = IF ParseOutcome(DocOf(w)) = "ok" THEN "dedup" ELSE "parse_failed"]
  /\ UNCHANGED <<aux, cfg, env, faults, job, store, queue, closed, cancelled, stopPc, submitRes, swExited, hashIndex, obs>>

\* Phase 1: parser.ForFile and Parse; on an error AddError
Parse(w) ==
  /\ proc[w].pc = "parse"
  /\ LET out == ParseOutcome(DocOf(w)) IN
       IF out = "ok"
       THEN /\ proc' = [proc EXCEPT ![w].pc = "dedup"]
            /\ UNCHANGED job
       ELSE /\ proc' = [proc EXCEPT ![w].pc = "parse_failed"]
            /\ job' = [job EXCEPT ![JobOf(w)] = AddError(@, <<out>>)]
  /\ UNCHANGED <<aux, cfg, env, faults, store, queue, closed, cancelled, stopPc, submitRes, swExited, hashIndex, obs>>

\* ParseFailed without its return statement: Process goes on to the dedup check
ParseFailedNoReturn(w) ==
  /\ proc[w].pc = "parse_failed"
  /\ job' = [job EXCEPT ![JobOf(w)] = SetStatus(@, "failed", "parsing")]
  /\ proc' = [proc EXCEPT ![w].pc = "dedup"]
  /\ UNCHANGED <<aux, cfg, env, faults, store, queue, closed, cancelled, stopPc, submitRes, swExited, hashIndex, obs>>

\* Phase 1, error path: SetStatus(StatusFailed, "parsing"); return
ParseFailed(w) ==
  /\ proc[w].pc = "parse_failed"
  /\ job' = [job EXCEPT ![JobOf(w)] = SetStatus(@, "failed", "parsing")]
  /\ proc' = Return(w)
  /\ UNCHANGED <<aux, cfg, env, faults, store, queue, closed, cancelled, stopPc, submitRes, swExited, hashIndex, obs>>

\* checkDuplicate with len(children) > 1 for len(children) > 0
CheckDuplicateOffByOne(index, u, d, listErr) ==
  IF listErr # NoErr THEN [exists |-> FALSE, err |-> listErr]
  ELSE [exists |-> Cardinality({e \in index : e.user = u /\ e.hash = ContentHash(d)}) > 1,
        err |-> NoErr]

\* checkDuplicate: (exists, err) from the listing under by_hash/{contentHash}
CheckDuplicate(index, u, d, listErr) ==
  IF listErr # NoErr THEN [exists |-> FALSE, err |-> listErr]
  ELSE [exists |-> \E e \in index : e.user = u /\ e.hash = ContentHash(d), err |-> NoErr]

\* DedupBranch that takes a failed listing for a duplicate
DedupBranchSkipOnError(dup) ==
  IF dup.err # NoErr \/ dup.exists THEN "skip" ELSE "proceed"

\* the branch Process takes on checkDuplicate's return
DedupBranch(dup) ==
  IF dup.err # NoErr THEN "proceed"
  ELSE IF dup.exists THEN "skip"
  ELSE "proceed"

\* a completed job of the same user and content that stored a fact and whose
\* hash-index entry is in pathstore
CompletedTwin(j) ==
  \E i \in Jobs \ {j} :
    /\ job[i].status = "completed" /\ job[i].factsStored >= 1
    /\ job[i].user = job[j].user /\ job[i].doc = job[j].doc
    /\ [user |-> job[i].user, hash |-> ContentHash(job[i].doc), docID |-> DocIDOf(job[i].doc)]
         \in hashIndex

\* Phase 1.5: dedup check, then either duplicate_skipped or Phase 2's SetStatus
Dedup(w) ==
  /\ proc[w].pc = "dedup"
  /\ \E listErr \in PathstoreCall(cancelled, MayFail) :
       /\ faults' = Charge(listErr)
       /\ LET j == JobOf(w)
              dup == CheckDuplicate(hashIndex, job[j].user, job[j].doc, listErr)
              br == DedupBranch(dup)
          IN /\ obs' = [obs EXCEPT ![j].listing = IF listErr = NoErr THEN "ok" ELSE "error",
                                   ![j].seen = IF CompletedTwin(j) THEN "present" ELSE "absent"]
             /\ IF br = "skip"
                THEN /\ job' = [job EXCEPT ![j] = SetStatus(@, "duplicate_skipped", "dedup")]
                     /\ proc' = Return(w)
                ELSE /\ job' = [job EXCEPT ![j] = SetStatus(@, "chunking", "chunking")]
                     /\ proc' = [proc EXCEPT ![w].pc = "chunk"]
  /\ UNCHANGED <<aux, cfg, env, store, queue, closed, cancelled, stopPc, submitRes, swExited, hashIndex>>

\* Chunk without the SetTotalChunks call
ChunkNoTotal(w) ==
  /\ proc[w].pc = "chunk"
  /\ LET n == NumChunks(DocOf(w)) IN
       proc' = [proc EXCEPT ![w].pc = "chunked",
                            ![w].ext = [i \in 1..n |-> [st |-> "idle", attempt |-> 0, rets |-> <<>>, end |-> "none"]]]
  /\ UNCHANGED <<aux, cfg, env, faults, job, store, queue, closed, cancelled, stopPc, submitRes, swExited, hashIndex, obs>>

\* Phase 2: ChunkTree and SetTotalChunks
Chunk(w) ==
  /\ proc[w].pc = "chunk"
  /\ LET n == NumChunks(DocOf(w)) IN
       /\ job' = [job EXCEPT ![JobOf(w)] = SetTotalChunks(@, n)]
       /\ proc' = [proc EXCEPT ![w].pc = "chunked",
                               ![w].ext = [i \in 1..n |-> [st |-> "idle", attempt |-> 0, rets |-> <<>>, end |-> "none"]]]
  /\ UNCHANGED <<aux, cfg, env, faults, store, queue, closed, cancelled, stopPc, submitRes, swExited, hashIndex, obs>>

\* Phase 2: no chunks -> AddError; otherwise Phase 3's SetStatus
Chunked(w) ==
  /\ proc[w].pc = "chunked"
  /\ IF Len(proc[w].ext) = 0
     THEN /\ job' = [job EXCEPT ![JobOf(w)] = AddError(@, <<"no extractable content">>)]
          /\ proc' = [proc EXCEPT ![w].pc = "chunk_failed"]
     ELSE /\ job' = [job EXCEPT ![JobOf(w)] = SetStatus(@, "extracting", "extracting")]
          /\ proc' = [proc EXCEPT ![w].pc = "extract"]
  /\ UNCHANGED <<aux, cfg, env, faults, store, queue, closed, cancelled, stopPc, submitRes, swExited, hashIndex, obs>>

\* ChunkFailed without its return statement: Process goes on to Phase 3
ChunkFailedNoReturn(w) ==
  /\ proc[w].pc = "chunk_failed"
  /\ job' = [job EXCEPT ![JobOf(w)] = SetStatus(@, "failed", "chunking")]
  /\ proc' = [proc EXCEPT ![w].pc = "extract"]
  /\ UNCHANGED <<aux, cfg, env, faults, store, queue, closed, cancelled, stopPc, submitRes, swExited, hashIndex, obs>>

\* Phase 2, error path: SetStatus(StatusFailed, "chunking"); return
ChunkFailed(w) ==
  /\ proc[w].pc = "chunk_failed"
  /\ job' = [job EXCEPT ![JobOf(w)] = SetStatus(@, "failed", "chunking")]
  /\ proc' = Return(w)
  /\ UNCHANGED <<aux, cfg, env, faults, store, queue, closed, cancelled, stopPc, submitRes, swExited, hashIndex, obs>>

\* SemHeld that forgets the goroutines waiting in their backoff
SemHeldCallsOnly(w) == Cardinality({i \in DOMAIN proc[w].ext : proc[w].ext[i].st = "call"})

\* extraction goroutines that hold a slot of sem
SemHeld(w) == Cardinality({i \in DOMAIN proc[w].ext : proc[w].ext[i].st \in {"call", "backoff"}})

\* Phase 3, spawn loop: sem <- struct{}{}; go func(i, chunk)
ExtractSpawn(w) ==
  /\ proc[w].pc = "extract"
  /\ proc[w].spawned < Len(proc[w].ext)
  /\ SemHeld(w) < cfg.maxConcurrentExtract
  /\ proc' = [proc EXCEPT ![w].spawned = @ + 1,
                          ![w].ext[proc[w].spawned + 1].st = "call"]
  /\ UNCHANGED <<aux, cfg, env, faults, job, store, queue, closed, cancelled, stopPc, submitRes, swExited, hashIndex, obs>>

\* the goroutine of chunk i-1 ends: results <- chunkResult{...}; <-sem
SendResult(w, i, res) ==
  [proc EXCEPT ![w].ext[i].st = "done",
               ![w].ext[i].end = res.err,
               ![w].results = Append(@, [idx |-> i - 1, err |-> res.err, facts |-> res.facts])]

\* one attempt of the retry loop: ExtractFacts, then break or go to the backoff
ExtractCall(w, i) ==
  /\ proc[w].pc = "extract"
  /\ proc[w].ext[i].st = "call"
  /\ \E res \in ExtractFacts(cancelled, MayFail) :
       /\ faults' = Charge(res.err)
       /\ LET called == [proc EXCEPT ![w].ext[i].rets =
                                   Append(@, [err |-> res.err, ctxCancelled |-> cancelled])]
          IN proc' = IF res.err = NoErr \/ ~IsRetryable(res.err)
                     THEN [called EXCEPT ![w].ext[i].st = "done",
                                         ![w].ext[i].end = res.err,
                                         ![w].results = Append(@, [idx |-> i - 1, err |-> res.err, facts |-> res.facts])]
                     ELSE [called EXCEPT ![w].ext[i].st = "backoff"]
       /\ obs' = [obs EXCEPT ![JobOf(w)].llmCalls = @ + 1,
                             ![JobOf(w)].chunkErrs =
                                IF res.err # NoErr /\ ~IsRetryable(res.err) THEN @ + 1 ELSE @,
                             ![JobOf(w)].returned = @ \cup {res.facts[k] : k \in DOMAIN res.facts},
                             ![JobOf(w)].passed = @ + Len(SelectSeq(res.facts, Valid))]
  /\ UNCHANGED <<aux, cfg, env, job, store, queue, closed, cancelled, stopPc, submitRes, swExited, hashIndex>>

\* ExtractBackoff that only sleeps: no ctx.Done() case in the select
ExtractBackoffSleepOnly(w, i) ==
  /\ proc[w].pc = "extract"
  /\ proc[w].ext[i].st = "backoff"
  /\ \/ /\ proc[w].ext[i].attempt + 1 < MaxRetries
        /\ proc' = [proc EXCEPT ![w].ext[i].st = "call", ![w].ext[i].attempt = @ + 1]
        /\ UNCHANGED obs
     \/ /\ proc[w].ext[i].attempt + 1 = MaxRetries
        /\ proc' = SendResult(w, i, [err |-> "RetryableError", facts |-> <<>>])
        /\ obs' = [obs EXCEPT ![JobOf(w)].chunkErrs = @ + 1]
  /\ UNCHANGED <<aux, cfg, env, faults, job, store, queue, closed, cancelled, stopPc, submitRes, swExited, hashIndex>>

\* the select after a retryable error. The timer of time.After is created on
\* entry and lasts at least a second, so under a cancelled context only
\* ctx.Done() is ready and ctx.Err() is sent; under a live context the timer
\* fires: next attempt, or the loop ends and lastErr is sent
ExtractBackoff(w, i) ==
  /\ proc[w].pc = "extract"
  /\ proc[w].ext[i].st = "backoff"
  /\ \/ /\ ~cancelled
        /\ proc[w].ext[i].attempt + 1 < MaxRetries
        /\ proc' = [proc EXCEPT ![w].ext[i].st = "call", ![w].ext[i].attempt = @ + 1]
        /\ UNCHANGED obs
     \/ /\ ~cancelled
        /\ proc[w].ext[i].attempt + 1 = MaxRetries
        /\ proc' = SendResult(w, i, [err |-> "RetryableError", facts |-> <<>>])
        /\ obs' = [obs EXCEPT ![JobOf(w)].chunkErrs = @ + 1]
     \/ /\ cancelled
        /\ proc' = SendResult(w, i, [err |-> "context canceled", facts |-> <<>>])
        /\ obs' = [obs EXCEPT ![JobOf(w)].chunkErrs = @ + 1]
  /\ UNCHANGED <<aux, cfg, env, faults, job, store, queue, closed, cancelled, stopPc, submitRes, swExited, hashIndex>>

\* collection loop: r := <-results; IncrChunksProcessed; valid facts appended
ExtractRecv(w) ==
  /\ proc[w].pc = "extract"
  /\ proc[w].spawned = Len(proc[w].ext)
  /\ proc[w].collected < Len(proc[w].ext)
  /\ proc[w].results # <<>>
  /\ LET r == Head(proc[w].results) IN
       /\ job' = [job EXCEPT ![JobOf(w)] = IncrChunksProcessed(@)]
       /\ proc' = [proc EXCEPT ![w].results = Tail(@),
                               ![w].collected = @ + 1,
                               ![w].r = IF r.err # NoErr THEN <<r>> ELSE <<>>,
                               ![w].pc = IF r.err # NoErr THEN "extract_err" ELSE "extract",
                               ![w].allFacts = IF r.err # NoErr THEN @ ELSE @ \o Validated(r.facts)]
  /\ UNCHANGED <<aux, cfg, env, faults, store, queue, closed, cancelled, stopPc, submitRes, swExited, hashIndex, obs>>

\* ExtractError that names the error by its place in the order of collection
ExtractErrorByArrival(w) ==
  /\ proc[w].pc = "extract_err"
  /\ LET r == proc[w].r[1] IN
       job' = [job EXCEPT ![JobOf(w)] = AddError(@, <<"chunk", proc[w].collected - 1, r.err>>)]
  /\ proc' = [proc EXCEPT ![w].pc = "extract", ![w].r = <<>>, ![w].hadErrors = TRUE]
  /\ UNCHANGED <<aux, cfg, env, faults, store, queue, closed, cancelled, stopPc, submitRes, swExited, hashIndex, obs>>

\* collection loop, r.err != nil: AddError("chunk idx: err"); hadErrors = true
ExtractError(w) ==
  /\ proc[w].pc = "extract_err"
  /\ LET r == proc[w].r[1] IN
       job' = [job EXCEPT ![JobOf(w)] = AddError(@, <<"chunk", r.idx, r.err>>)]
  /\ proc' = [proc EXCEPT ![w].pc = "extract", ![w].r = <<>>, ![w].hadErrors = TRUE]
  /\ UNCHANGED <<aux, cfg, env, faults, store, queue, closed, cancelled, stopPc, submitRes, swExited, hashIndex, obs>>

\* after the collection loop: AddFacts(len(allFacts), 0)
ExtractDone(w) ==
  /\ proc[w].pc = "extract"
  /\ proc[w].collected = Len(proc[w].ext)
  /\ job' = [job EXCEPT ![JobOf(w)] = AddFacts(@, Len(proc[w].allFacts), 0)]
  /\ proc' = [proc EXCEPT ![w].pc = "extracted"]
  /\ UNCHANGED <<aux, cfg, env, faults, store, queue, closed, cancelled, stopPc, submitRes, swExited, hashIndex, obs>>

\* ExtractionFailed that gives up on any chunk error
ExtractionFailedOnAnyError(nFacts, hadErrors) == hadErrors

\* the condition under which Process gives up after extraction
ExtractionFailed(nFacts, hadErrors) == nFacts = 0 /\ hadErrors

\* failed/extracting and return, or Phase 4's SetStatus
ExtractDecide(w) ==
  /\ proc[w].pc = "extracted"
  /\ IF ExtractionFailed(Len(proc[w].allFacts), proc[w].hadErrors)
     THEN /\ job' = [job EXCEPT ![JobOf(w)] = SetStatus(@, "failed", "extracting")]
          /\ proc' = Return(w)
     ELSE /\ job' = [job EXCEPT ![JobOf(w)] = SetStatus(@, "storing", "storing")]
          /\ proc' = [proc EXCEPT ![w].pc = "store",
                                  ![w].st = [k \in 1..Len(proc[w].allFacts) |-> "idle"]]
  /\ UNCHANGED <<aux, cfg, env, faults, store, queue, closed, cancelled, stopPc, submitRes, swExited, hashIndex, obs>>

\* StoreHeld for store goroutines that never give their slot back
StoreHeldForGood(w) == Cardinality({k \in DOMAIN proc[w].st : proc[w].st[k] # "idle"})

\* store goroutines that hold a slot of storeSem
StoreHeld(w) == Cardinality({k \in DOMAIN proc[w].st : proc[w].st[k] \in {"put", "manifest"}})

\* Phase 4, spawn loop: storeSem <- struct{}{}; go func(f)
StoreSpawn(w) ==
  /\ proc[w].pc = "store"
  /\ proc[w].sspawned < Len(proc[w].st)
  /\ StoreHeld(w) < cfg.maxConcurrentStore
  /\ proc' = [proc EXCEPT ![w].sspawned = @ + 1,
                          ![w].st[proc[w].sspawned + 1] = "put"]
  /\ UNCHANGED <<aux, cfg, env, faults, job, store, queue, closed, cancelled, stopPc, submitRes, swExited, hashIndex, obs>>

\* store goroutine: storeFact's PutNode; on an error the result is sent
StorePut(w, k) ==
  /\ proc[w].pc = "store"
  /\ proc[w].st[k] = "put"
  /\ \E err \in PathstoreCall(cancelled, MayFail) :
       /\ faults' = Charge(err)
       /\ IF err # NoErr
          THEN /\ proc' = [proc EXCEPT ![w].st[k] = "done",
                                       ![w].sresults = Append(@, [ok |-> FALSE, err |-> err])]
               /\ obs' = [obs EXCEPT ![JobOf(w)].puts = @ + 1, ![JobOf(w)].putFail = @ + 1,
                                     ![JobOf(w)].written = @ \cup {proc[w].allFacts[k]}]
          ELSE /\ proc' = [proc EXCEPT ![w].st[k] = "manifest"]
               /\ obs' = [obs EXCEPT ![JobOf(w)].puts = @ + 1, ![JobOf(w)].putOk = @ + 1,
                                     ![JobOf(w)].written = @ \cup {proc[w].allFacts[k]}]
  /\ UNCHANGED <<aux, cfg, env, job, store, queue, closed, cancelled, stopPc, submitRes, swExited, hashIndex>>

\* store goroutine: the manifest PutNode (its error is only logged), then
\* storeResults <- storeResult{ok: true}; <-storeSem
StoreManifest(w, k) ==
  /\ proc[w].pc = "store"
  /\ proc[w].st[k] = "manifest"
  /\ \E err \in PathstoreCall(cancelled, MayFail) :
       /\ faults' = Charge(err)
       /\ obs' = [obs EXCEPT ![JobOf(w)].puts = @ + 1,
                          ![JobOf(w)].auxFail = IF err # NoErr THEN @ + 1 ELSE @,
                          ![JobOf(w)].manifest = IF err = NoErr THEN @ + 1 ELSE @]
  /\ proc' = [proc EXCEPT ![w].st[k] = "done",
                          ![w].sresults = Append(@, [ok |-> TRUE, err |-> NoErr])]
  /\ UNCHANGED <<aux, cfg, env, job, store, queue, closed, cancelled, stopPc, submitRes, swExited, hashIndex>>

\* collection loop: r := <-storeResults; storedCount++ or AddError, hadErrors
StoreRecv(w) ==
  /\ proc[w].pc = "store"
  /\ proc[w].sspawned = Len(proc[w].st)
  /\ proc[w].scollected < Len(proc[w].st)
  /\ proc[w].sresults # <<>>
  /\ LET r == Head(proc[w].sresults) IN
       IF r.ok
       THEN /\ proc' = [proc EXCEPT ![w].sresults = Tail(@), ![w].scollected = @ + 1,
                                    ![w].storedCount = @ + 1]
            /\ UNCHANGED job
       ELSE /\ proc' = [proc EXCEPT ![w].sresults = Tail(@), ![w].scollected = @ + 1,
                                    ![w].hadErrors = TRUE]
            /\ job' = [job EXCEPT ![JobOf(w)] = AddError(@, <<"store", r.err>>)]
  /\ UNCHANGED <<aux, cfg, env, faults, store, queue, closed, cancelled, stopPc, submitRes, swExited, hashIndex, obs>>

\* StoreDone that leaves the collection loop after the first result
StoreDoneFirstResult(w) ==
  /\ proc[w].pc = "store"
  /\ proc[w].scollected >= 1 \/ Len(proc[w].st) = 0
  /\ job' = [job EXCEPT ![JobOf(w)] = AddFacts(@, 0, proc[w].storedCount)]
  /\ proc' = [proc EXCEPT ![w].pc = "meta"]
  /\ UNCHANGED <<aux, cfg, env, faults, store, queue, closed, cancelled, stopPc, submitRes, swExited, hashIndex, obs>>

\* after the collection loop: AddFacts(0, storedCount)
StoreDone(w) ==
  /\ proc[w].pc = "store"
  /\ proc[w].scollected = Len(proc[w].st)
  /\ job' = [job EXCEPT ![JobOf(w)] = AddFacts(@, 0, proc[w].storedCount)]
  /\ proc' = [proc EXCEPT ![w].pc = "meta"]
  /\ UNCHANGED <<aux, cfg, env, faults, store, queue, closed, cancelled, stopPc, submitRes, swExited, hashIndex, obs>>

\* document metadata PutNode; on an error AddError("meta: ...")
PutMeta(w) ==
  /\ proc[w].pc = "meta"
  /\ \E err \in PathstoreCall(cancelled, MayFail) :
       /\ faults' = Charge(err)
       /\ job' = [job EXCEPT ![JobOf(w)] = IF err # NoErr THEN AddError(@, <<"meta", err>>) ELSE @]
       /\ obs' = [obs EXCEPT ![JobOf(w)].puts = @ + 1,
                             ![JobOf(w)].auxFail = IF err # NoErr THEN @ + 1 ELSE @]
  /\ proc' = [proc EXCEPT ![w].pc = "hash"]
  /\ UNCHANGED <<aux, cfg, env, store, queue, closed, cancelled, stopPc, submitRes, swExited, hashIndex>>

\* hash index PutNode at by_hash/{contentHash}/{docID}; an error is only logged
PutHash(w) ==
  /\ proc[w].pc = "hash"
  /\ \E err \in PathstoreCall(cancelled, MayFail) :
       /\ faults' = Charge(err)
       /\ LET j == JobOf(w) IN
          /\ hashIndex' = IF err = NoErr
                          THEN hashIndex \cup { [user |-> job[j].user, hash |-> ContentHash(job[j].doc),
                                                 docID |-> DocIDOf(job[j].doc)] }
                          ELSE hashIndex
          /\ obs' = [obs EXCEPT ![j].puts = @ + 1,
                                ![j].auxFail = IF err # NoErr THEN @ + 1 ELSE @]
  /\ proc' = [proc EXCEPT ![w].pc = "final"]
  /\ UNCHANGED <<aux, cfg, env, job, store, queue, closed, cancelled, stopPc, submitRes, swExited>>

\* TerminalStatus without the partial branch
TerminalStatusNoPartial(hadErrors, storedCount) ==
  IF hadErrors THEN [status |-> "failed", phase |-> "storing"]
  ELSE [status |-> "completed", phase |-> "done"]

\* the status Process ends with after the storing phase
TerminalStatus(hadErrors, storedCount) ==
  IF hadErrors /\ storedCount > 0 THEN [status |-> "partial", phase |-> "done"]
  ELSE IF hadErrors THEN [status |-> "failed", phase |-> "storing"]
  ELSE [status |-> "completed", phase |-> "done"]

\* the last SetStatus of Process
Finish(w) ==
  /\ proc[w].pc = "final"
  /\ LET t == TerminalStatus(proc[w].hadErrors, proc[w].storedCount) IN
       job' = [job EXCEPT ![JobOf(w)] = SetStatus(@, t.status, t.phase)]
  /\ proc' = Return(w)
  /\ UNCHANGED <<aux, cfg, env, faults, store, queue, closed, cancelled, stopPc, submitRes, swExited, hashIndex, obs>>

\* ---------------------------------------------------------------- behaviour
Next ==
  \/ \E j \in Jobs, u \in Users, d \in AllDocs : Submit(j, u, d)
  \/ \E j \in Jobs : SubmitDefault(j)
  \/ StopCancel
  \/ StopClose
  \/ StopReturn
  \/ SweeperTick
  \/ SweeperExit
  \/ \E w \in Workers : WorkerExit(w)
  \/ \E w \in Workers : WorkerDequeue(w)
  \/ \E w \in Workers : Parse(w)
  \/ \E w \in Workers : ParseFailed(w)
  \/ \E w \in Workers : Dedup(w)
  \/ \E w \in Workers : Chunk(w)
  \/ \E w \in Workers : Chunked(w)
  \/ \E w \in Workers : ChunkFailed(w)
  \/ \E w \in Workers : ExtractSpawn(w)
  \/ \E w \in Workers : \E i \in DOMAIN proc[w].ext : ExtractCall(w, i)
  \/ \E w \in Workers : \E i \in DOMAIN proc[w].ext : ExtractBackoff(w, i)
  \/ \E w \in Workers : ExtractRecv(w)
  \/ \E w \in Workers : ExtractError(w)
  \/ \E w \in Workers : ExtractDone(w)
  \/ \E w \in Workers : ExtractDecide(w)
  \/ \E w \in Workers : StoreSpawn(w)
  \/ \E w \in Workers : \E k \in DOMAIN proc[w].st : StorePut(w, k)
  \/ \E w \in Workers : \E k \in DOMAIN proc[w].st : StoreManifest(w, k)
  \/ \E w \in Workers : StoreRecv(w)
  \/ \E w \in Workers : StoreDone(w)
  \/ \E w \in Workers : PutMeta(w)
  \/ \E w \in Workers : PutHash(w)
  \/ \E w \in Workers : Finish(w)

Spec == Init /\ [][Next]_vars

\* the steps of worker goroutine w and of the goroutines its Process started
WorkerStep(w) ==
  \/ WorkerExit(w) \/ WorkerDequeue(w)
  \/ Parse(w) \/ ParseFailed(w) \/ Dedup(w) \/ Chunk(w) \/ Chunked(w) \/ ChunkFailed(w)
  \/ ExtractSpawn(w)
  \/ \E i \in DOMAIN proc[w].ext : ExtractCall(w, i) \/ ExtractBackoff(w, i)
  \/ ExtractRecv(w) \/ ExtractError(w) \/ ExtractDone(w) \/ ExtractDecide(w)
  \/ StoreSpawn(w)
  \/ \E k \in DOMAIN proc[w].st : StorePut(w, k) \/ StoreManifest(w, k)
  \/ StoreRecv(w) \/ StoreDone(w) \/ PutMeta(w) \/ PutHash(w) \/ Finish(w)

\* the Go scheduler runs every goroutine that can take a step, and every LLM
\* and pathstore call returns; submissions, the signal that starts Stop and
\* the ticker are not forced
Fairness ==
  /\ \A w \in Workers : WF_vars(WorkerStep(w))
  /\ WF_vars(StopClose)
  /\ WF_vars(StopReturn)
  /\ WF_vars(SweeperExit)
  /\ \A j \in Jobs : WF_vars(SubmitDefault(j))

FairSpec == Init /\ [][Next]_vars /\ Fairness

\* ===================================================================
\* Properties
\* ===================================================================

\* the edges of the per-job status graph
Edges ==
  { <<"queued", "parsing">>, <<"parsing", "chunking">>, <<"chunking", "extracting">>,
    <<"extracting", "storing">>, <<"storing", "completed">>, <<"storing", "partial">>,
    <<"parsing", "duplicate_skipped">>, <<"queued", "failed">>,
    <<"parsing", "failed">>, <<"chunking", "failed">>, <<"extracting", "failed">>,
    <<"storing", "failed">> }

IsPath(h) ==
  /\ h # <<>> => h[1] = "queued"
  /\ \A k \in 1..(Len(h) - 1) : <<h[k], h[k + 1]>> \in Edges
  /\ \A k, l \in 1..Len(h) : k # l => h[k] # h[l]

\* C1: the status values written to a job form a path of the graph
\* queued -> parsing -> chunking -> extracting -> storing -> {completed,
\* partial}, with parsing -> duplicate_skipped, {parsing, chunking, extracting,
\* storing} -> failed, and queued -> failed only in Submit's queue-full branch
\* (phase queue_full); no status is skipped and none is written twice.
C1_StatusPath ==
  \A j \in Jobs :
    /\ IsPath(job[j].hist)
    /\ job[j].hist # <<>> => job[j].status = job[j].hist[Len(job[j].hist)]
    /\ (Len(job[j].hist) >= 2 /\ job[j].hist[2] = "failed")
         => (job[j].phase = "queue_full" /\ submitRes[j] = "error")

\* a job has walked the whole graph to partial
C1_Witness ==
  \E j \in Jobs :
    job[j].hist = <<"queued", "parsing", "chunking", "extracting", "storing", "partial">>

\* C2: once a job's status is completed, failed, partial or
\* duplicate_skipped, no step changes its status, phase, progress counters or
\* error list.
C2_TerminalFrozen ==
  [][\A j \in Jobs : job[j].status \in Terminal => job'[j] = job[j]]_vars

\* a job a worker brought to a terminal status while work goes on or Stop has
\* returned
C2_Witness ==
  \E j \in Jobs :
    /\ job[j].status \in Terminal /\ job[j].phase # "queue_full"
    /\ \/ \E i \in Jobs \ {j} : job[i].status \in {"extracting", "storing"}
       \/ stopPc = "returned"

ProgressBounds ==
  \A j \in Jobs :
    /\ job[j].chunksProcessed <= job[j].totalChunks
    /\ job[j].factsStored <= job[j].factsValid

ProgressMonotone ==
  \A j \in Jobs :
    /\ job'[j].chunksProcessed >= job[j].chunksProcessed
    /\ job'[j].factsValid >= job[j].factsValid
    /\ job'[j].factsStored >= job[j].factsStored

\* C3: in every state a reader can observe, chunksProcessed <= totalChunks and
\* factsStored <= factsValid, and from one observation to the next
\* chunksProcessed, factsValid and factsStored never decrease.
C3_Progress == []ProgressBounds /\ [][ProgressMonotone]_vars

\* all chunks processed, two valid facts, one of them stored
C3_Witness ==
  \E j \in Jobs :
    /\ job[j].totalChunks = 2 /\ job[j].chunksProcessed = 2
    /\ job[j].factsValid = 2 /\ job[j].factsStored = 1

\* the job came to its terminal status through the storing phase
EndedStoring(j) ==
  \/ job[j].status \in {"completed", "partial"}
  \/ job[j].status = "failed" /\ job[j].phase = "storing"

\* C4: at the end of the storing phase the job is partial/done if a chunk
\* extraction or a fact PUT failed and a fact PUT succeeded, failed/storing if
\* one of them failed and no fact PUT succeeded, completed/done otherwise;
\* manifest, meta and hash-index failures play no part.
C4_TerminalStatus ==
  \A j \in Jobs :
    EndedStoring(j) =>
      LET someFailed == obs[j].chunkErrs > 0 \/ obs[j].putFail > 0
          someStored == obs[j].putOk > 0
      IN <<job[j].status, job[j].phase>> =
           IF someFailed /\ someStored THEN <<"partial", "done">>
           ELSE IF someFailed THEN <<"failed", "storing">>
           ELSE <<"completed", "done">>

\* a job completed although a manifest, meta or hash-index PUT failed
C4_Witness ==
  \E j \in Jobs :
    /\ job[j].status = "completed" /\ job[j].factsStored >= 1
    /\ obs[j].auxFail >= 2

FailedExtracting(j) == job[j].status = "failed" /\ job[j].phase = "extracting"

\* the job went on from extracting to storing
WentOnToStoring(j) == job[j].status = "storing" \/ EndedStoring(j)

\* C5 as stated: a job goes from extracting to failed/extracting only if every
\* one of its chunks ended with an extraction error and no fact was
\* accumulated; if a chunk's extraction succeeded the job goes on to storing.
C5_Original ==
  \A j \in Jobs :
    FailedExtracting(j) => (obs[j].chunkErrs = job[j].totalChunks /\ job[j].factsValid = 0)

\* C5 as amended: a job goes from extracting to failed/extracting exactly
\* when at least one of its chunks ended with an extraction error and no valid
\* fact was accumulated; when no chunk failed or a valid fact was accumulated it
\* goes on to storing.
C5_Amended ==
  \A j \in Jobs :
    /\ FailedExtracting(j) => (obs[j].chunkErrs >= 1 /\ job[j].factsValid = 0)
    /\ WentOnToStoring(j) => (obs[j].chunkErrs = 0 \/ job[j].factsValid >= 1)

\* failed/extracting although one of the two chunks was extracted without error
C5_Witness ==
  \E j \in Jobs :
    FailedExtracting(j) /\ job[j].totalChunks = 2 /\ obs[j].chunkErrs = 1

SameContent(i, j) ==
  /\ i # j
  /\ job[i].status # "none" /\ job[j].status # "none"
  /\ job[i].user = job[j].user /\ job[i].doc = job[j].doc

WroteFacts(j) == obs[j].putOk + obs[j].putFail > 0

\* C6: of two submissions of the same bytes under the same user, in every
\* interleaving of the workers, only one performs fact writes (the other ends
\* duplicate_skipped without an LLM call): never do both issue fact PUTs.
C6_OneFactWriteSequence ==
  \A i, j \in Jobs : SameContent(i, j) => ~(WroteFacts(i) /\ WroteFacts(j))

DuplicateSkippedClean(j) ==
  /\ job[j].status = "duplicate_skipped" /\ job[j].phase = "dedup"
  /\ obs[j].llmCalls = 0 /\ obs[j].puts = 0
  /\ job[j].totalChunks = 0 /\ job[j].factsValid = 0 /\ job[j].factsStored = 0

\* C7 as stated: if a first job of the same user and content has ended
\* completed with a fact stored and its hash-index PUT succeeded before the
\* second job's duplicate check, the second job ends duplicate_skipped/dedup
\* with no LLM call, no pathstore PUT and all counters 0.
C7_Original ==
  \A j \in Jobs : obs[j].seen = "present" => DuplicateSkippedClean(j)

\* C7 as amended: the same, provided the duplicate-check listing of the second
\* job returns without error.
C7_Amended ==
  \A j \in Jobs :
    (obs[j].seen = "present" /\ obs[j].listing = "ok") => DuplicateSkippedClean(j)

\* a second job skipped as the duplicate of a completed first one
C7_Witness ==
  \E j \in Jobs :
    obs[j].seen = "present" /\ obs[j].listing = "ok" /\ job[j].status = "duplicate_skipped"

\* C8: when the queue holds maxQueueSize jobs Submit returns an error and
\* leaves the job failed/queue_full, never handed to a worker; when Submit
\* returns nil the job was put in the queue with status queued.
C8_SubmitOutcome ==
  \A j \in Jobs :
    submitRes[j] \in {"nil", "error", "panic"} =>
      /\ obs[j].sawFull =>
           /\ submitRes[j] = "error"
           /\ job[j].hist = <<"queued", "failed">> /\ job[j].phase = "queue_full"
      /\ submitRes[j] = "nil" => ~obs[j].sawFull

\* jobs Submit accepted that have not reached a terminal status
InFlight == {j \in Jobs : submitRes[j] = "nil" /\ job[j].status \notin Terminal}

\* C9: the queue never holds more than maxQueueSize jobs, and the accepted jobs
\* that are not yet terminal number at most maxQueueSize + workerCount.
C9_Admission ==
  /\ Len(queue) <= cfg.maxQueueSize
  /\ Cardinality(InFlight) <= cfg.maxQueueSize + cfg.workerCount

\* the bound is met, and a further submission was turned away
C9_Witness ==
  /\ Cardinality(InFlight) = cfg.maxQueueSize + cfg.workerCount
  /\ \E j \in Jobs : submitRes[j] = "error"

NoWorkerBusy == \A w \in Workers : proc[w].pc \in {"absent", "exited"}

\* C10 as stated: Stop returns only after every worker and the sweeper have
\* exited; once Stop has cancelled the context it returns eventually; after it
\* has returned no job is being processed and no job's state changes.
C10_Original ==
  /\ [](stopPc = "returned" => (WaitGroupDone /\ NoWorkerBusy))
  /\ [][stopPc = "returned" =>
          \A j \in Jobs : job[j].status # "none" => job'[j] = job[j]]_vars
  /\ (stopPc = "cancelled" ~> stopPc = "returned")

\* a Submit that picked its default branch marks its own job failed/queue_full
RejectedBySubmit(j) ==
  submitRes[j] = "default" /\ job'[j] = SetStatus(job[j], "failed", "queue_full")

\* C10 as amended: the same, except that after Stop has returned a Submit that
\* found the queue full before it was closed may still mark its own job
\* failed/queue_full; no other state of a job changes.
C10_Amended ==
  /\ [](stopPc = "returned" => (WaitGroupDone /\ NoWorkerBusy))
  /\ [][stopPc = "returned" =>
          \A j \in Jobs :
            job[j].status # "none" => (job'[j] = job[j] \/ RejectedBySubmit(j))]_vars
  /\ (stopPc = "cancelled" ~> stopPc = "returned")

\* Stop has returned after a worker finished a job the cancellation cut short,
\* with another job left in the queue
C10_Witness ==
  /\ stopPc = "returned"
  /\ \E j \in Jobs :
       /\ job[j].status = "failed"
       /\ \E k \in DOMAIN job[j].errors : job[j].errors[k][Len(job[j].errors[k])] = "context canceled"
  /\ queue # <<>>

\* the retry loops of the chunks of the jobs now in extraction
ChunkTasks == {<<w, i>> : w \in Workers, i \in 1..NumChunks("long")}
Live(t) == t[2] \in DOMAIN proc[t[1]].ext
Task(t) == proc[t[1]].ext[t[2]]

\* C11: a chunk gets at most MaxRetries LLM calls; every call but the last
\* returned a RetryableError; a success or a permanent error ends the chunk
\* with that attempt, so a chunk whose first call fails permanently costs
\* exactly one call.
C11_RetryLimit ==
  \A t \in ChunkTasks : Live(t) =>
    LET c == Task(t)
        n == Len(c.rets) IN
      /\ n <= MaxRetries
      /\ \A k \in 1..(n - 1) : c.rets[k].err = "RetryableError"
      /\ (n > 0 /\ c.rets[n].err # "RetryableError") => (c.st = "done" /\ c.end = c.rets[n].err)
      /\ (n > 0 /\ c.rets[1].err = "permanent") => n = 1

\* a chunk given up after MaxRetries retryable failures
C11_Witness ==
  \E t \in ChunkTasks :
    /\ Live(t)
    /\ Len(Task(t).rets) = MaxRetries
    /\ Task(t).st = "done" /\ Task(t).end = "RetryableError"

\* C12: a call that fails by timeout under a live context is retried like a
\* 429 or 5xx: when it was not the last allowed attempt, the chunk ends only
\* after a further attempt or by a cancellation during the backoff.
C12_TimeoutRetried ==
  \A t \in ChunkTasks : Live(t) =>
    LET c == Task(t) IN
      \A k \in 1..Len(c.rets) :
        (c.rets[k].err = "timeout" /\ k < MaxRetries /\ c.st = "done")
          => (Len(c.rets) > k \/ c.end = "context canceled")

\* a step of the chunk's task taken while it waits in the backoff under a
\* cancelled context ends the task with the context's error and without a call
BackoffCutShort(t) ==
  (Live(t) /\ Task(t).st = "backoff" /\ cancelled
     /\ t[2] \in DOMAIN proc'[t[1]].ext /\ proc'[t[1]].ext[t[2]] # Task(t))
  => /\ proc'[t[1]].ext[t[2]].st = "done"
     /\ proc'[t[1]].ext[t[2]].end = "context canceled"
     /\ proc'[t[1]].ext[t[2]].rets = Task(t).rets

\* a call made under a cancelled context is the chunk's last
CallAfterCancelIsLast ==
  \A t \in ChunkTasks : Live(t) =>
    \A k \in 1..Len(Task(t).rets) :
      Task(t).rets[k].ctxCancelled => (k = Len(Task(t).rets) /\ Task(t).st = "done")

\* C13: a cancellation during a backoff wait ends the wait, no further LLM
\* attempt is made for the chunk and its error is the cancellation error; an
\* attempt that starts after the cancellation is a single call, not retried.
C13_CancelEndsRetries ==
  /\ []CallAfterCancelIsLast
  /\ [][\A t \in ChunkTasks : BackoffCutShort(t)]_vars

\* a chunk cancelled in its backoff wait after a retryable failure
C13_Witness ==
  \E t \in ChunkTasks :
    /\ Live(t)
    /\ Task(t).end = "context canceled"
    /\ Task(t).rets # <<>>
    /\ Task(t).rets[Len(Task(t).rets)].err = "RetryableError"

\* C14: when a job has terminated, its manifest holds one entry per fact PUT
\* that succeeded and none for one that failed: the number of manifest entries
\* equals factsStored, whatever the PUT outcomes were.
C14_ManifestMatchesFacts ==
  \A j \in Jobs :
    job[j].status \in Terminal =>
      (obs[j].manifest = obs[j].putOk /\ obs[j].manifest = job[j].factsStored)

\* Process calls made on job j: each begins with SetStatus(parsing)
ProcessRuns(j) == Cardinality({k \in DOMAIN job[j].hist : job[j].hist[k] = "parsing"})

\* C17: an accepted job is dequeued by at most one worker and Process runs on
\* it at most once; no two workers hold the same job; a job a worker holds is
\* no longer in the queue, and the queue holds no job twice.
C17_ExclusiveOwner ==
  /\ \A j \in Jobs : ProcessRuns(j) <= 1 /\ (ProcessRuns(j) = 1 => submitRes[j] = "nil")
  /\ \A v, w \in Workers :
       (v # w /\ proc[v].job # 0 /\ proc[w].job # 0) => proc[v].job # proc[w].job
  /\ \A w \in Workers : \A k \in DOMAIN queue : queue[k] # proc[w].job
  /\ \A k, l \in DOMAIN queue : k # l => queue[k] # queue[l]

\* two workers at work at the same time, each on its own job
C17_Witness ==
  \E v, w \in Workers :
    /\ v # w /\ proc[v].job # 0 /\ proc[w].job # 0
    /\ ProcessRuns(proc[v].job) = 1 /\ ProcessRuns(proc[w].job) = 1

\* store goroutines that hold a slot of storeSem
StoreInFlight(w) == Cardinality({k \in DOMAIN proc[w].st : proc[w].st[k] \in {"put", "manifest"}})

\* extraction goroutines with an LLM call in flight or in a backoff wait
ExtractInFlight(w) ==
  Cardinality({i \in DOMAIN proc[w].ext : proc[w].ext[i].st \in {"call", "backoff"}})

\* C18: for one job, at most maxConcurrentExtract extraction tasks hold a
\* semaphore slot (LLM call in flight or backoff) and at most
\* maxConcurrentStore store tasks are in flight (fact PUT or manifest PUT).
C18_BoundedFanOut ==
  \A w \in Workers :
    /\ ExtractInFlight(w) <= cfg.maxConcurrentExtract
    /\ StoreInFlight(w) <= cfg.maxConcurrentStore

\* the limit holds a task back: with one slot, the first chunk waits in its
\* backoff and the second chunk's task has not been started
C18_Witness ==
  \E w \in Workers :
    /\ proc[w].pc = "extract"
    /\ cfg.maxConcurrentExtract = 1
    /\ Len(proc[w].ext) = 2
    /\ proc[w].ext[1].st = "backoff" /\ proc[w].ext[2].st = "idle"

\* ===================================================================
\* handleDeleteDocument (handlers_docs.go)

DocFacts == 2       \* facts an ingested document has stored at most
DeleteFaults == 2   \* pathstore calls that fail during one deletion at most

\* what an ingestion of the document can have left in pathstore: the fact
\* nodes it stored, manifest entries for those whose manifest PUT succeeded,
\* the meta node (the set holds its content_hash; empty when the meta PUT
\* failed), the hash-index entry unless that PUT failed
IngestedDocs ==
  { [facts |-> F, manifest |-> M, meta |-> m, hashEntry |-> h] :
      F \in SUBSET (1..DocFacts), M \in SUBSET (1..DocFacts),
      m \in {{}, {ContentHash("short")}}, h \in BOOLEAN }

DeleteInit ==
  /\ PipelineAtRest
  /\ ulid = Off /\ slug = Off /\ chunker = Off /\ val = Off /\ backoff = Off /\ sweep = Off /\ stats = Off /\ claude = Off
  /\ \E ps \in {d \in IngestedDocs : d.manifest \subseteq d.facts} :
       del = [pc |-> "list", ps |-> ps, before |-> ps, entries |-> {},
              factsDeleted |-> 0, missingPaths |-> 0, manifestDeleted |-> 0,
              hash |-> {}, errs |-> 0, status |-> 0]

\* the outcomes of a pathstore call of the handler
DeleteCall == IF del.errs < DeleteFaults THEN {NoErr, "error"} ELSE {NoErr}

\* 1. ListChildren(documents/{docID}/facts); an error answers 500
DeleteList ==
  /\ del.pc = "list"
  /\ \E err \in DeleteCall :
       del' = IF err # NoErr
              THEN [del EXCEPT !.pc = "done", !.status = 500, !.errs = @ + 1]
              ELSE [del EXCEPT !.pc = "facts", !.entries = del.ps.manifest]
  /\ UNCHANGED notDel

\* 2. for each manifest entry: DeleteNode(value.path)
DeleteFact ==
  /\ del.pc = "facts"
  /\ del.entries # {}
  /\ LET e == CHOOSE x \in del.entries : \A y \in del.entries : x <= y IN
       \E err \in DeleteCall :
         del' = IF err # NoErr
                THEN [del EXCEPT !.entries = @ \ {e}, !.missingPaths = @ + 1, !.errs = @ + 1]
                ELSE [del EXCEPT !.entries = @ \ {e}, !.factsDeleted = @ + 1,
                                 !.ps.facts = @ \ {e}]
  /\ UNCHANGED notDel

\* 3. DeleteNode(documents/{docID}, recursive): meta and manifest go with it
DeleteSubtree ==
  /\ del.pc = "facts"
  /\ del.entries = {}
  /\ \E err \in DeleteCall :
       del' = IF err # NoErr
              THEN [del EXCEPT !.pc = "hash", !.errs = @ + 1]
              ELSE [del EXCEPT !.pc = "hash", !.manifestDeleted = 1,
                               !.ps.manifest = {}, !.ps.meta = {}]
  /\ UNCHANGED notDel

\* GetNode: (nil, err) on a failure, (nil, nil) for a node that does not exist
GetNode(node, err) ==
  IF err # NoErr THEN [node |-> {}, err |-> err]
  ELSE [node |-> node, err |-> NoErr]

\* 4. deleteHashIndex: GetNode(documents/{docID}/meta); return without the
\* content hash
DeleteReadMeta ==
  /\ del.pc = "hash"
  /\ \E err \in DeleteCall :
       LET got == GetNode(del.ps.meta, err) IN
         del' = IF got.err # NoErr \/ got.node = {}
                THEN [del EXCEPT !.pc = "done", !.status = 200,
                                 !.errs = IF err # NoErr THEN @ + 1 ELSE @]
                ELSE [del EXCEPT !.pc = "hashdel", !.hash = got.node]
  /\ UNCHANGED notDel

\* deleteHashIndex: DeleteNode(documents/by_hash/{hash}/{docID}), error ignored
DeleteHashEntry ==
  /\ del.pc = "hashdel"
  /\ \E err \in DeleteCall :
       del' = IF err # NoErr
              THEN [del EXCEPT !.pc = "done", !.status = 200, !.errs = @ + 1]
              ELSE [del EXCEPT !.pc = "done", !.status = 200,
                               !.ps.hashEntry = IF del.hash = del.before.meta THEN FALSE ELSE @]
  /\ UNCHANGED notDel

DeleteNext ==
  \/ DeleteList
  \/ DeleteFact
  \/ DeleteSubtree
  \/ DeleteReadMeta
  \/ DeleteHashEntry

DeleteSpec == DeleteInit /\ [][DeleteNext]_vars

\* C15: a deletion in which every pathstore call succeeded has removed the
\* document's hash-index entry, found through the content_hash of the meta
\* node as it was before the deletion.
C15_HashEntryDeleted ==
  (del.pc = "done" /\ del.errs = 0 /\ del.before.meta # {} /\ del.before.hashEntry)
    => ~del.ps.hashEntry

\* ===================================================================
\* generateULID (ulid.go)

SeqValues == 3   \* values of lastSeq; uint16 has 2^16, scaled down
MaxMillis == 3   \* wall-clock readings 1..MaxMillis
MaxULIDs == 5    \* generateULID calls in a run

UlidInit ==
  /\ PipelineAtRest
  /\ del = Off /\ slug = Off /\ chunker = Off /\ val = Off /\ backoff = Off /\ sweep = Off /\ stats = Off /\ claude = Off
  /\ \E t \in 1..MaxMillis :
       ulid = [now |-> t, lastTS |-> 0, lastSeq |-> 0, issued |-> {}, calls |-> 0,
               repeated |-> FALSE, wentBack |-> FALSE, wrapped |-> FALSE]

\* the wall clock behind time.Now().UnixMilli() advances
ClockTick ==
  /\ ulid.now < MaxMillis
  /\ ulid' = [ulid EXCEPT !.now = @ + 1]
  /\ UNCHANGED notUlid

\* the wall clock is set back (time.Now().UnixMilli() is not monotonic)
ClockSetBack ==
  /\ ulid.now > 1
  /\ ulid' = [ulid EXCEPT !.now = @ - 1]
  /\ UNCHANGED notUlid

\* NextSeq that restarts at 0 for every call
NextSeqNoBump(ts, lastTS, lastSeq) == 0

\* lastSeq after the call: lastSeq++ (unsigned, wraps) within the millisecond
\* of the previous call, 0 otherwise
NextSeq(ts, lastTS, lastSeq) ==
  IF ts = lastTS THEN (lastSeq + 1) % SeqValues ELSE 0

\* one call, under ulidMu; the call's (timestamp, sequence) part is recorded
GenerateULID ==
  /\ ulid.calls < MaxULIDs
  /\ LET ts == ulid.now
         seq == NextSeq(ts, ulid.lastTS, ulid.lastSeq) IN
       ulid' = [ulid EXCEPT !.lastTS = ts, !.lastSeq = seq,
                            !.issued = @ \cup {<<ts, seq>>},
                            !.calls = @ + 1,
                            !.repeated = @ \/ <<ts, seq>> \in ulid.issued,
                            !.wentBack = @ \/ ts < ulid.lastTS,
                            !.wrapped = @ \/ (ts = ulid.lastTS /\ ulid.lastSeq = SeqValues - 1)]
  /\ UNCHANGED notUlid

UlidNext ==
  \/ ClockTick
  \/ ClockSetBack
  \/ GenerateULID

UlidSpec == UlidInit /\ [][UlidNext]_vars

SlugLimit == 50   \* len(s) > 50 => s[:50]
MaxTail == 3      \* length of the free part of an input
Alphabet == {"a", "B", "-", " ", "_"}

\* n times the character c
Repeat(c, n) == [k \in 1..n |-> c]

\* strings.ToLower on the characters of the alphabet
ToLower(s) == [k \in DOMAIN s |-> IF s[k] = "B" THEN "b" ELSE s[k]]

\* strings.Trim(s, c) / strings.TrimSpace(s) for c = " "
RECURSIVE TrimLeft(_, _)
TrimLeft(s, c) == IF s # <<>> /\ Head(s) = c THEN TrimLeft(Tail(s), c) ELSE s

RECURSIVE TrimRight(_, _)
TrimRight(s, c) ==
  IF s # <<>> /\ s[Len(s)] = c THEN TrimRight(SubSeq(s, 1, Len(s) - 1), c) ELSE s

Trim(s, c) == TrimRight(TrimLeft(s, c), c)

\* [^a-z0-9-] replaced by "-"
SlugChars == {"a", "b", "-"}
ReplaceOthers(s) == [k \in DOMAIN s |-> IF s[k] \in SlugChars THEN s[k] ELSE "-"]

\* -+ replaced by "-"
RECURSIVE Collapse(_)
Collapse(s) ==
  IF Len(s) < 2 THEN s
  ELSE IF s[1] = "-" /\ s[2] = "-" THEN Collapse(Tail(s))
  ELSE <<s[1]>> \o Collapse(Tail(s))

Truncate(s) == IF Len(s) > SlugLimit THEN SubSeq(s, 1, SlugLimit) ELSE s

Slugify(s) == Truncate(Trim(Collapse(ReplaceOthers(ToLower(Trim(s, " ")))), "-"))

\* inputs: a run of letters up to the limit, then any short tail
RECURSIVE Strings(_)
Strings(n) ==
  IF n = 0 THEN {<<>>}
  ELSE LET S == Strings(n - 1) IN S \cup {Append(t, c) : t \in S, c \in Alphabet}

SlugInputs ==
  {Repeat("a", n) \o t : n \in {0} \cup ((SlugLimit - 3)..SlugLimit), t \in Strings(MaxTail)}

SlugInit ==
  /\ PipelineAtRest
  /\ del = Off /\ ulid = Off /\ chunker = Off /\ val = Off /\ backoff = Off /\ sweep = Off /\ stats = Off /\ claude = Off
  /\ \E s \in SlugInputs : slug = [pc |-> "input", s |-> s, once |-> <<>>, twice |-> <<>>]

SlugifyOnce ==
  /\ slug.pc = "input"
  /\ slug' = [slug EXCEPT !.pc = "once", !.once = Slugify(slug.s)]
  /\ UNCHANGED notSlug

SlugifyAgain ==
  /\ slug.pc = "once"
  /\ slug' = [slug EXCEPT !.pc = "twice", !.twice = Slugify(slug.once)]
  /\ UNCHANGED notSlug

SlugNext == SlugifyOnce \/ SlugifyAgain

SlugSpec == SlugInit /\ [][SlugNext]_vars

\* C19: slugify is idempotent, also for inputs whose slug exceeds the limit:
\* slugify(slugify(s)) = slugify(s).
C19_Idempotent == slug.pc = "twice" => slug.twice = slug.once

\* ===================================================================
\* ChunkTree (chunker). A text is a sequence of paragraphs, a paragraph a
\* sequence of sentences, a sentence its number of words: the chunker looks
\* at a text only through strings.Fields, "\n\n" and the sentence ends. A
\* part of a text is the number of words it holds.

MaxChildren == 2   \* children of a node, and sections of a tree, at most

RECURSIVE SumSeq(_)
SumSeq(q) == IF q = <<>> THEN 0 ELSE Head(q) + SumSeq(Tail(q))

ParaWords(para) == SumSeq(para)
TextWords(text) == SumSeq([k \in DOMAIN text |-> ParaWords(text[k])])

\* EstimateTokens: int(float64(words) * 1.33), at least 1 for a text
EstimateTokens(words) ==
  IF words = 0 THEN 0
  ELSE LET tokens == (words * 133) \div 100 IN IF tokens < 1 THEN 1 ELSE tokens

\* getOverlapText: the last int(targetTokens / 1.33) words, or nothing
GetOverlapText(words, targetTokens) ==
  LET targetWords == (targetTokens * 100) \div 133 IN
    IF targetWords <= 0 \/ words <= targetWords THEN 0 ELSE targetWords

\* the flush shared by splitText and splitBySentences: the current buffer
\* becomes a part and the next buffer starts with its overlap
FlushWithOverlap(b, overlapTokens) ==
  LET overlap == GetOverlapText(b.words, overlapTokens) IN
    [result |-> Append(b.result, b.words), words |-> overlap,
     tokens |-> IF overlap # 0 THEN EstimateTokens(overlap) ELSE 0]

\* one round of either loop: flush if the piece would exceed the target, then
\* add the piece
AddPiece(b, pieceWords, targetTokens, overlapTokens) ==
  LET t == EstimateTokens(pieceWords)
      c == IF b.tokens + t > targetTokens /\ b.tokens > 0
           THEN FlushWithOverlap(b, overlapTokens) ELSE b
  IN [c EXCEPT !.words = @ + pieceWords, !.tokens = @ + t]

\* the end of either loop: what is left in the buffer is the last part
Finished(b) == IF b.tokens > 0 THEN Append(b.result, b.words) ELSE b.result

RECURSIVE SentenceLoop(_, _, _, _)
SentenceLoop(sentences, b, targetTokens, overlapTokens) ==
  IF sentences = <<>> THEN Finished(b)
  ELSE SentenceLoop(Tail(sentences), AddPiece(b, Head(sentences), targetTokens, overlapTokens),
                    targetTokens, overlapTokens)

EmptyBuffer == [result |-> <<>>, words |-> 0, tokens |-> 0]

splitBySentences(para, targetTokens, overlapTokens) ==
  SentenceLoop(para, EmptyBuffer, targetTokens, overlapTokens)

RECURSIVE ParagraphLoop(_, _, _, _)
ParagraphLoop(paragraphs, b, targetTokens, overlapTokens) ==
  IF paragraphs = <<>> THEN Finished(b)
  ELSE LET para == Head(paragraphs) IN
    IF EstimateTokens(ParaWords(para)) > targetTokens
    THEN LET flushed == IF b.tokens > 0 THEN Append(b.result, b.words) ELSE b.result
         IN ParagraphLoop(Tail(paragraphs),
                          [result |-> flushed \o splitBySentences(para, targetTokens, overlapTokens),
                           words |-> 0, tokens |-> 0],
                          targetTokens, overlapTokens)
    ELSE ParagraphLoop(Tail(paragraphs), AddPiece(b, ParaWords(para), targetTokens, overlapTokens),
                       targetTokens, overlapTokens)

splitText(text, targetTokens, overlapTokens) ==
  ParagraphLoop(text, EmptyBuffer, targetTokens, overlapTokens)

\* ExtendBreadcrumb that appends an empty title too
ExtendBreadcrumbAlways(breadcrumb, title) == Append(breadcrumb, title)

\* bc: the breadcrumb handed down and the node's title unless it is empty
ExtendBreadcrumb(breadcrumb, title) ==
  IF title # "" THEN Append(breadcrumb, title) ELSE breadcrumb

\* NextIndex that counts the dropped parts too
NextIndexAlways(index, kept) == index + 1

\* index++ inside the MinChunk test
NextIndex(index, kept) == IF kept THEN index + 1 ELSE index

\* the parts of a node's text are appended, each under the MinChunk test;
\* at is the place of the node in the tree (child numbers from the top)
RECURSIVE EmitParts(_, _, _, _, _)
EmitParts(parts, bc, at, c, acc) ==
  IF parts = <<>> THEN acc
  ELSE LET kept == EstimateTokens(Head(parts)) >= c.minChunk
           chunk == [text |-> Head(parts), index |-> acc.index, breadcrumb |-> bc, at |-> at]
       IN EmitParts(Tail(parts), bc, at, c,
                    [chunks |-> IF kept THEN Append(acc.chunks, chunk) ELSE acc.chunks,
                     index |-> NextIndex(acc.index, kept)])

RECURSIVE walkNode(_, _, _, _, _)
RECURSIVE WalkChildren(_, _, _, _, _, _)
WalkChildren(children, k, bc, at, c, acc) ==
  IF k > Len(children) THEN acc
  ELSE WalkChildren(children, k + 1, bc, at, c,
                    walkNode(children[k], bc, Append(at, k), c, acc))

walkNode(node, breadcrumb, at, c, acc) ==
  LET bc == ExtendBreadcrumb(breadcrumb, node.title)
      parts == IF node.text = <<>> THEN <<>>
               ELSE IF EstimateTokens(TextWords(node.text)) <= c.chunkSize
                    THEN <<TextWords(node.text)>>
                    ELSE splitText(node.text, c.chunkSize, c.chunkOverlap)
  IN WalkChildren(node.children, 1, bc, at, c, EmitParts(parts, bc, at, c, acc))

\* non-positive settings are replaced by the defaults
Defaulted(c) ==
  [chunkSize |-> IF c.chunkSize <= 0 THEN 1500 ELSE c.chunkSize,
   chunkOverlap |-> IF c.chunkOverlap <= 0 THEN 200 ELSE c.chunkOverlap,
   minChunk |-> IF c.minChunk <= 0 THEN 100 ELSE c.minChunk]

ChunkTree(tree, c) ==
  WalkChildren(tree.children, 1, <<>>, <<>>, Defaulted(c), [chunks |-> <<>>, index |-> 0]).chunks

\* a text whose first part is a single word, cut off by a paragraph too long
\* for one chunk
LongText == <<<<1>>, <<3, 3, 1>>>>

\* a paragraph of one sentence: no '.', '!' or '?' followed by a space in it
OneSentence == <<<<7>>>>

\* texts: none; one word; one paragraph that fits; paragraphs to be joined and
\* split; LongText; OneSentence
Texts == { <<>>, <<<<1>>>>, <<<<3>>>>, <<<<3>>, <<1>>, <<1>>>>, LongText, OneSentence }

RECURSIVE SeqsUpTo(_, _)
SeqsUpTo(S, n) ==
  IF n = 0 THEN {<<>>}
  ELSE LET Q == SeqsUpTo(S, n - 1) IN Q \cup {Append(q, x) : q \in Q, x \in S}

\* nodes without children: plain text, and a titled subsection
Leaves ==
  {[title |-> "", text |-> t, children |-> <<>>] : t \in Texts \ {<<>>}}
    \cup {[title |-> "c", text |-> <<<<3>>>>, children |-> <<>>]}
Sections ==
  {[title |-> h, text |-> t, children |-> ch] :
     h \in {"", "a", "b"}, t \in {<<>>, LongText}, ch \in SeqsUpTo(Leaves, MaxChildren)}
Trees ==
  {[title |-> "doc", children |-> ch] : ch \in SeqsUpTo(Leaves \cup Sections, MaxChildren)}

\* small chunks with an overlap of no word, of one word and of more words
\* than a chunk is to hold, and the config that leaves
\* everything to the defaults
Configs ==
  {[chunkSize |-> 4, chunkOverlap |-> o, minChunk |-> 2] : o \in {1, 2, 8}}
    \cup {[chunkSize |-> 0, chunkOverlap |-> 0, minChunk |-> 0]}

ChunkerInit ==
  /\ PipelineAtRest
  /\ del = Off /\ ulid = Off /\ slug = Off /\ val = Off /\ backoff = Off /\ sweep = Off /\ stats = Off /\ claude = Off
  /\ \E tree \in Trees, c \in Configs :
       chunker = [pc |-> "input", tree |-> tree, cfg |-> c, chunks |-> <<>>]

ChunkTreeCall ==
  /\ chunker.pc = "input"
  /\ chunker' = [chunker EXCEPT !.pc = "chunked", !.chunks = ChunkTree(chunker.tree, chunker.cfg)]
  /\ UNCHANGED notChunker

ChunkerNext == ChunkTreeCall

ChunkerSpec == ChunkerInit /\ [][ChunkerNext]_vars

\* place a comes before place b in pre-order, or is the same place
RECURSIVE PreOrderLeq(_, _)
PreOrderLeq(a, b) ==
  IF a = <<>> THEN TRUE
  ELSE IF b = <<>> THEN FALSE
  ELSE IF Head(a) # Head(b) THEN Head(a) < Head(b)
  ELSE PreOrderLeq(Tail(a), Tail(b))

\* C20: the chunks returned carry the indices 0..N-1 in list order, without gap
\* or repeat, and lie in the pre-order of their nodes; dropped parts take no
\* index.
C20_Indices ==
  chunker.pc = "chunked" =>
    /\ \A k \in DOMAIN chunker.chunks : chunker.chunks[k].index = k - 1
    /\ \A k, l \in DOMAIN chunker.chunks :
         k < l => PreOrderLeq(chunker.chunks[k].at, chunker.chunks[l].at)

\* the chunks of the node at a place of the tree
ChunksAt(at) == {k \in DOMAIN chunker.chunks : chunker.chunks[k].at = at}

\* a section whose text lost a part to MinChunk, with chunks of its own and
\* chunks of a child after them
C20_Witness ==
  /\ chunker.pc = "chunked"
  /\ \E k \in DOMAIN chunker.tree.children :
       /\ chunker.tree.children[k].text = LongText
       /\ ChunksAt(<<k>>) # {}
       /\ Cardinality(ChunksAt(<<k>>)) <
            Len(splitText(LongText, Defaulted(chunker.cfg).chunkSize,
                          Defaulted(chunker.cfg).chunkOverlap))
       /\ ChunksAt(<<k, 1>>) # {}

\* C21: with positive settings every chunk returned by ChunkTree has an
\* estimate of at most 2 * chunkSize tokens.
C21_ChunkSize ==
  (/\ chunker.pc = "chunked"
   /\ chunker.cfg.chunkSize > 0 /\ chunker.cfg.chunkOverlap > 0 /\ chunker.cfg.minChunk > 0)
  => \A k \in DOMAIN chunker.chunks :
       EstimateTokens(chunker.chunks[k].text) <= 2 * chunker.cfg.chunkSize

\* the non-empty titles met on the way from the sections of the tree down to
\* the node at a place, the node's own title included
RECURSIVE TitlesAlong(_, _)
TitlesAlong(children, at) ==
  IF at = <<>> THEN <<>>
  ELSE LET node == children[Head(at)] IN
    (IF node.title # "" THEN <<node.title>> ELSE <<>>) \o TitlesAlong(node.children, Tail(at))

\* C22: the breadcrumb of a chunk is the list of the non-empty titles of its
\* node and of the node's ancestors below the root, outermost first; the root
\* title and the titles of other subtrees are not in it.
C22_Breadcrumb ==
  chunker.pc = "chunked" =>
    \A k \in DOMAIN chunker.chunks :
      chunker.chunks[k].breadcrumb = TitlesAlong(chunker.tree.children, chunker.chunks[k].at)

\* two sections with different titles, the first without text; a chunk of a
\* titled subsection of the first, one of an untitled node, one of the second
C22_Witness ==
  /\ chunker.pc = "chunked"
  /\ Len(chunker.tree.children) = 2
  /\ chunker.tree.children[1].title = "a" /\ chunker.tree.children[1].text = <<>>
  /\ chunker.tree.children[2].title = "b"
  /\ \E k \in DOMAIN chunker.chunks : chunker.chunks[k].breadcrumb = <<"a", "c">>
  /\ \E k \in DOMAIN chunker.chunks :
       chunker.chunks[k].at = <<1, 2>> /\ chunker.chunks[k].breadcrumb = <<"a">>
  /\ \E k \in DOMAIN chunker.chunks : chunker.chunks[k].breadcrumb = <<"b">>

\* ===================================================================
\* ValidateFact (extract/validate.go), on facts as json.Unmarshal can produce
\* them.

\* texts around the two limits, with and without surrounding spaces, with
\* letters of two bytes, and with an injection phrase
FactTexts ==
  { <<>>, <<Run(" ", 2)>>, <<Run("a", 2)>>, <<Run(" ", 1), Run("a", 2), Run(" ", 1)>>,
    <<Run("a", 3)>>, <<Run(" ", 1), Run("a", 3), Run(" ", 2)>>,
    <<Run("a", 1), Run(" ", 1), Run("a", 1)>>, <<Run("E", 1), Run("a", 1)>>,
    <<Run("I", 1), Run(" ", 1), Run("a", 1)>>,
    <<Run("a", MaxText)>>, <<Run(" ", 1), Run("a", MaxText), Run(" ", 1)>>,
    <<Run("a", MaxText + 1)>>, <<Run("E", MaxText \div 2)>>, <<Run("E", MaxText \div 2 + 1)>> }

FactCategories == ValidCategories \cup {"Preference", ""}

FactSaliences == {-1, 0, MinSalience - 1, MinSalience, 800, MaxSalience, MaxSalience + 1}

FactTrusts == {-1, 0, 3, MaxTrust, MaxTrust + 1}

AllTopics == <<"t1", "t2", "t3", "t4">>
FactTopics == {SubSeq(AllTopics, 1, n) : n \in {0, 1, MaxTopics, MaxTopics + 1}}

Facts ==
  {NilFact} \cup
  {[present |-> TRUE, text |-> t, category |-> c, salience |-> sal, minTrust |-> mt,
    topics |-> tp] :
     t \in FactTexts, c \in FactCategories, sal \in FactSaliences, mt \in FactTrusts,
     tp \in FactTopics}

ValidateInit ==
  /\ PipelineAtRest
  /\ del = Off /\ ulid = Off /\ slug = Off /\ chunker = Off /\ backoff = Off /\ sweep = Off /\ stats = Off /\ claude = Off
  /\ \E f \in Facts :
       val = [pc |-> "input", f |-> f, ok |-> FALSE, once |-> f, again |-> FALSE, twice |-> f]

ValidateOnce ==
  /\ val.pc = "input"
  /\ val' = [val EXCEPT !.pc = "once", !.ok = ValidateFact(val.f).ok,
                        !.once = ValidateFact(val.f).f]
  /\ UNCHANGED notVal

ValidateAgain ==
  /\ val.pc = "once"
  /\ val' = [val EXCEPT !.pc = "twice", !.again = ValidateFact(val.once).ok,
                        !.twice = ValidateFact(val.once).f]
  /\ UNCHANGED notVal

ValidateNext == ValidateOnce \/ ValidateAgain

ValidateSpec == ValidateInit /\ [][ValidateNext]_vars

\* C23: validate(f) returns true exactly when f is present, its trimmed text
\* has 3 to 300 characters, its category is one of the four, the text does not
\* match the injection pattern and the salience is in [0.01, 1.0].
C23_ValidateVerdict ==
  val.pc = "once" =>
    (val.ok <=>
       /\ val.f.present
       /\ RuneLen(TrimSpace(val.f.text)) \in MinText..MaxText
       /\ val.f.category \in {"entity_fact", "preference", "topic_knowledge", "procedure"}
       /\ ~MatchInjection(val.f.text)
       /\ val.f.salience \in MinSalience..MaxSalience)

\* Min(3, n)
MinOf(a, b) == IF a < b THEN a ELSE b

\* C24: after validate(f) returned true, minTrust is 0 if it was outside
\* [0, 10] and unchanged otherwise, topics are the first min(3, n) of the
\* original ones, and a second validation returns true and changes nothing.
C24_ClampAndTruncate ==
  /\ (val.pc \in {"once", "twice"} /\ val.ok) =>
       /\ val.once.minTrust = IF val.f.minTrust \in 0..10 THEN val.f.minTrust ELSE 0
       /\ val.once.topics = SubSeq(val.f.topics, 1, MinOf(3, Len(val.f.topics)))
       /\ \A fld \in {"text", "category", "salience"} : val.once[fld] = val.f[fld]
  /\ (val.pc = "twice" /\ val.ok) => (val.again /\ val.twice = val.once)

\* a valid fact with min_trust 11 and four topics, validated twice
C24_Witness ==
  /\ val.pc = "twice" /\ val.ok
  /\ val.f.minTrust = 11 /\ Len(val.f.topics) = 4
  /\ val.twice.minTrust = 0 /\ Len(val.twice.topics) = 3

\* ===================================================================
\* Backoff (pipeline/retry.go). An int64 is the set of the positions of its
\* one bits, bit 63 the sign; a duration that fits is a record of whole
\* seconds and nanoseconds.

MaxAttempt == 70     \* attempt numbers 0..MaxAttempt
WordBits == 64       \* the width of time.Duration
Nano == 1000000000   \* time.Second in nanoseconds
MaxBase == 30        \* the cap of the base, in seconds

Dur(sec, ns) == [s |-> sec + ns \div Nano, ns |-> ns % Nano]
DurAdd(a, b) == Dur(a.s + b.s, a.ns + b.ns)
DurLess(a, b) == a.s < b.s \/ (a.s = b.s /\ a.ns < b.ns)
\* d / 2 and d - 1ns for a positive duration
DurHalf(d) == Dur(d.s \div 2, (d.s % 2) * (Nano \div 2) + d.ns \div 2)
DurPred(d) == IF d.ns > 0 THEN Dur(d.s, d.ns - 1) ELSE Dur(d.s - 1, Nano - 1)

\* the bits of a natural number below 2^31
RECURSIVE BitsFrom(_, _)
BitsFrom(n, pos) ==
  IF n = 0 THEN {}
  ELSE (IF n % 2 = 1 THEN {pos} ELSE {}) \cup BitsFrom(n \div 2, pos + 1)
Bits(n) == BitsFrom(n, 0)

\* 2^e nanoseconds as a duration, for e up to the highest bit of CapWord
\* (2^30 ns = 1 s + 73741824 ns)
Pow2(e) == IF e < 30 THEN Dur(0, 2 ^ e) ELSE Dur(2 ^ (e - 30), 2 ^ (e - 30) * 73741824)

\* the value of a word between 0 and CapWord: the sum over its bits 0..34
BitValue(w, pos) == IF pos \in w THEN Pow2(pos) ELSE Dur(0, 0)
FiveBits(w, pos) ==
  DurAdd(DurAdd(DurAdd(BitValue(w, pos), BitValue(w, pos + 1)),
                DurAdd(BitValue(w, pos + 2), BitValue(w, pos + 3))),
         BitValue(w, pos + 4))
WordValue(w) ==
  DurAdd(DurAdd(DurAdd(FiveBits(w, 0), FiveBits(w, 5)), DurAdd(FiveBits(w, 10), FiveBits(w, 15))),
         DurAdd(DurAdd(FiveBits(w, 20), FiveBits(w, 25)), FiveBits(w, 30)))

\* 1 << uint(attempt): 0 once the count reaches the width
ShiftOne(attempt) == IF attempt < WordBits THEN {attempt} ELSE {}

\* x * y in 64 bits, for x a power of two or 0: y shifted, the high bits lost
MulPow2(x, y) == {b + e : b \in y, e \in x} \cap (0..(WordBits - 1))

Negative(w) == (WordBits - 1) \in w
\* a > b for words that are not negative
Greater(a, b) == \E k \in a \ b : \A j \in b \ a : j < k

\* the words of time.Second and of 30 * time.Second (30 * 10^9 written as
\* 29296875 * 2^10, which keeps the number within the range of Bits)
SecondWord == Bits(Nano)
CapWord == MulPow2({10}, Bits(29296875))

\* base after the cap, as a word
BaseWord(attempt) ==
  LET base == MulPow2(ShiftOne(attempt), SecondWord) IN
    IF ~Negative(base) /\ Greater(base, CapWord) THEN CapWord ELSE base

\* Backoff(attempt): the durations the call can return, by the jitter drawn
\* (the least, the greatest and the middle of [0, base/2)); rand.Int64N
\* panics for an argument that is not positive
Backoff(attempt) ==
  LET base == BaseWord(attempt) IN
    IF Negative(base) \/ base \subseteq {0}
    THEN {[panic |-> TRUE, d |-> Dur(0, 0)]}
    ELSE LET dur == WordValue(base)
             half == DurHalf(dur)
         IN {[panic |-> FALSE, d |-> DurAdd(dur, jitter)] :
               jitter \in {Dur(0, 0), DurHalf(half), DurPred(half)}}

BackoffInit ==
  /\ PipelineAtRest
  /\ del = Off /\ ulid = Off /\ slug = Off /\ chunker = Off /\ val = Off /\ sweep = Off /\ stats = Off /\ claude = Off
  /\ \E n \in 0..MaxAttempt :
       backoff = [pc |-> "input", attempt |-> n, panic |-> FALSE, d |-> Dur(0, 0)]

BackoffCall ==
  /\ backoff.pc = "input"
  /\ \E r \in Backoff(backoff.attempt) :
       backoff' = [backoff EXCEPT !.pc = "done", !.panic = r.panic, !.d = r.d]
  /\ UNCHANGED notBackoff

BackoffNext == BackoffCall

BackoffSpec == BackoffInit /\ [][BackoffNext]_vars

\* min(2^n, 30) seconds
CappedBase(n) == IF n >= 5 THEN Dur(MaxBase, 0) ELSE Dur(2 ^ n, 0)

\* C25: for every attempt number n >= 0, Backoff(n) returns a duration d with
\* min(2^n, 30) s <= d < 1.5 * min(2^n, 30) s.
C25_BackoffRange ==
  backoff.pc = "done" =>
    /\ ~backoff.panic
    /\ ~DurLess(backoff.d, CappedBase(backoff.attempt))
    /\ DurLess(backoff.d, DurAdd(CappedBase(backoff.attempt), DurHalf(CappedBase(backoff.attempt))))

\* ===================================================================
\* JobStore.Cleanup and the sweeper goroutine (job.go, orchestrator.go), with
\* a clock. updatedAt is the time of the job's last mutation; -1 stands for a
\* job that is not in the store.

SweepJobs == 2     \* jobs submitted at most
MaxNow == 3        \* the clock runs from 0 to MaxNow
MaxTTL == 2        \* JobTTL is 1..MaxTTL ticks of the clock
MaxSweeps == 2     \* calls of Cleanup at most
MaxMuts == 2       \* mutations per job at most, the creation included

SweepIds == 1..SweepJobs

\* JobStore.Cleanup: the jobs that stay
Cleanup(updatedAt, now, ttl) ==
  [j \in DOMAIN updatedAt |-> IF now - updatedAt[j] > ttl THEN -1 ELSE updatedAt[j]]

\* o.wg.Wait() with nothing added to the group
SweepWaitDoneAtOnce(exited) == TRUE

\* o.wg.Wait() returns: the sweeper has run its deferred o.wg.Done()
SweepWaitDone(exited) == exited

SweepInit ==
  /\ PipelineAtRest
  /\ del = Off /\ ulid = Off /\ slug = Off /\ chunker = Off /\ val = Off /\ backoff = Off /\ stats = Off /\ claude = Off
  /\ \E ttl \in 1..MaxTTL :
       sweep = [now |-> 0, ttl |-> ttl, updatedAt |-> [j \in SweepIds |-> -1],
                muts |-> [j \in SweepIds |-> 0], sweeps |-> 0,
                stopPc |-> "idle", exited |-> FALSE]

\* time passes
SweepClock ==
  /\ sweep.now < MaxNow
  /\ sweep' = [sweep EXCEPT !.now = @ + 1]
  /\ UNCHANGED notSweep

\* the ingest handler builds the job with UpdatedAt: now and Submit puts it
\* into the store
SweepPut(j) ==
  /\ sweep.muts[j] = 0
  /\ sweep' = [sweep EXCEPT !.updatedAt[j] = sweep.now, !.muts[j] = 1]
  /\ UNCHANGED notSweep

\* SetStatus, AddError, IncrChunksProcessed, AddFacts, SetTotalChunks on a job
\* of the store: each sets updatedAt to now
SweepMutate(j) ==
  /\ sweep.updatedAt[j] >= 0
  /\ sweep.muts[j] < MaxMuts
  /\ sweep' = [sweep EXCEPT !.updatedAt[j] = sweep.now, !.muts[j] = @ + 1]
  /\ UNCHANGED notSweep

\* sweeper, case <-ticker.C: o.jobs.Cleanup()
SweepTick ==
  /\ ~sweep.exited
  /\ sweep.sweeps < MaxSweeps
  /\ sweep' = [sweep EXCEPT !.updatedAt = Cleanup(@, sweep.now, sweep.ttl), !.sweeps = @ + 1]
  /\ UNCHANGED notSweep

\* Stop: o.cancel() and close(o.queue)
SweepStop ==
  /\ sweep.stopPc = "idle"
  /\ sweep' = [sweep EXCEPT !.stopPc = "cancelled"]
  /\ UNCHANGED notSweep

\* sweeper, case <-workerCtx.Done(): return
SweepExit ==
  /\ sweep.stopPc # "idle"
  /\ ~sweep.exited
  /\ sweep' = [sweep EXCEPT !.exited = TRUE]
  /\ UNCHANGED notSweep

\* Stop: o.wg.Wait() returns
SweepStopReturn ==
  /\ sweep.stopPc = "cancelled"
  /\ SweepWaitDone(sweep.exited)
  /\ sweep' = [sweep EXCEPT !.stopPc = "returned"]
  /\ UNCHANGED notSweep

SweepNext ==
  \/ SweepClock
  \/ \E j \in SweepIds : SweepPut(j) \/ SweepMutate(j)
  \/ SweepTick
  \/ SweepStop
  \/ SweepExit
  \/ SweepStopReturn

SweepSpec == SweepInit /\ [][SweepNext]_vars

\* the jobs in the store
InStore(sw) == {j \in SweepIds : sw.updatedAt[j] >= 0}

StatsCallers == 2   \* goroutines calling Record or Snapshot
MaxClock == 3       \* the clock runs from 0 to MaxClock
MaxAgeTicks == 1    \* maxAge in ticks of the clock
MaxSamples == 3     \* calls of Record at most

Callers == 1..StatsCallers

\* pruneLocked: the samples whose timestamp is not before now - maxAge
PruneLocked(samples, now, maxAge) ==
  LET Keep(sm) == ~(sm.timestamp < now - maxAge) IN SelectSeq(samples, Keep)

\* Record: if durationMs < 0 { durationMs = 0 }
ClampDuration(durationMs) == IF durationMs < 0 THEN 0 ELSE durationMs

IdleCall == [pc |-> "idle", now |-> 0, durationMs |-> 0]

StatsInit ==
  /\ PipelineAtRest
  /\ del = Off /\ ulid = Off /\ slug = Off /\ chunker = Off /\ val = Off /\ backoff = Off /\ sweep = Off /\ claude = Off
  /\ stats = [clock |-> 0, maxAge |-> MaxAgeTicks, samples |-> <<>>,
              call |-> [c \in Callers |-> IdleCall],
              recorded |-> <<>>,     \* the timestamps of all samples recorded so far
              snap |-> [taken |-> FALSE, count |-> 0, now |-> 0, expect |-> 0]]

\* time passes
StatsClock ==
  /\ stats.clock < MaxClock
  /\ stats' = [stats EXCEPT !.clock = @ + 1]
  /\ UNCHANGED notStats

\* Record, up to now := time.Now()
RecordBegin(c, durationMs) ==
  /\ stats.call[c].pc = "idle"
  /\ Len(stats.recorded) + Cardinality({o \in Callers : stats.call[o].pc = "record"}) < MaxSamples
  /\ stats' = [stats EXCEPT
       !.call[c] = [pc |-> "record", now |-> stats.clock, durationMs |-> ClampDuration(durationMs)]]
  /\ UNCHANGED notStats

\* Record, from s.mu.Lock() to the return
RecordLocked(c) ==
  /\ stats.call[c].pc = "record"
  /\ LET now == stats.call[c].now IN
       stats' = [stats EXCEPT
         !.samples = Append(PruneLocked(@, now, stats.maxAge),
                            [timestamp |-> now, durationMs |-> stats.call[c].durationMs]),
         !.recorded = Append(@, now),
         !.call[c] = IdleCall]
  /\ UNCHANGED notStats

\* Snapshot, up to now := time.Now()
SnapshotBegin(c) ==
  /\ stats.call[c].pc = "idle"
  /\ stats' = [stats EXCEPT
       !.call[c] = [pc |-> "snapshot", now |-> stats.clock, durationMs |-> 0]]
  /\ UNCHANGED notStats

\* Snapshot, from s.mu.Lock() to the return
SnapshotLocked(c) ==
  /\ stats.call[c].pc = "snapshot"
  /\ LET now == stats.call[c].now
         kept == PruneLocked(stats.samples, now, stats.maxAge)
         inWindow == {k \in DOMAIN stats.recorded : stats.recorded[k] >= now - stats.maxAge}
     IN stats' = [stats EXCEPT
          !.samples = kept,
          !.snap = [taken |-> TRUE, count |-> Len(kept), now |-> now,
                    expect |-> Cardinality(inWindow)],
          !.call[c] = IdleCall]
  /\ UNCHANGED notStats

StatsNext ==
  \/ StatsClock
  \/ \E c \in Callers :
       \/ \E ms \in {-1, 5} : RecordBegin(c, ms)
       \/ RecordLocked(c)
       \/ SnapshotBegin(c)
       \/ SnapshotLocked(c)

StatsSpec == StatsInit /\ [][StatsNext]_vars

Statuses == {200, 400, 429, 499, 500, 503}

\* what the body of a 200 answer can be: not JSON; JSON with an "error"
\* member; JSON with an empty content array; a content text that is not a
\* JSON array; a JSON array of facts, bare or inside a code fence
Bodies == {"garbage", "envelope", "empty", "prose", "fenced", "facts"}

\* a reply: whether httpClient.Do returned a response, its status, whether
\* io.ReadAll of the body succeeded, and the body
Replies ==
  { [do |-> "error", status |-> 0, read |-> "error", body |-> "garbage"] }
  \cup [do : {"ok"}, status : Statuses, read : {"ok", "error"}, body : Bodies]

\* the status test of ExtractFacts
RetryableStatus(status) == status = 429 \/ status >= 500

\* the error ExtractFacts returns on a reply
ExtractFactsReturn(reply) ==
  IF reply.do = "error" THEN "claude api"
  ELSE IF reply.read = "error" THEN "read response"
  ELSE IF RetryableStatus(reply.status) THEN "RetryableError"
  ELSE IF reply.status # 200 THEN "claude api status"
  ELSE IF reply.body = "garbage" THEN "decode response"
  ELSE IF reply.body = "envelope" THEN "claude error"
  ELSE IF reply.body = "empty" THEN "empty response from claude"
  ELSE IF reply.body = "prose" THEN "parse facts json"
  ELSE NoErr

ClaudeInit ==
  /\ PipelineAtRest
  /\ del = Off /\ ulid = Off /\ slug = Off /\ chunker = Off /\ val = Off /\ backoff = Off /\ sweep = Off
  /\ stats = [clock |-> 0, maxAge |-> MaxAgeTicks, samples |-> <<>>,
              call |-> [c \in Callers |-> IdleCall], recorded |-> <<>>,
              snap |-> [taken |-> FALSE, count |-> 0, now |-> 0, expect |-> 0]]
  /\ claude = [pc |-> "call", attempt |-> 0, calls |-> <<>>, ctxCancelled |-> FALSE, end |-> NoErr]

\* the context of the job is cancelled
ClaudeCancel ==
  /\ claude.pc # "done"
  /\ ~claude.ctxCancelled
  /\ claude' = [claude EXCEPT !.ctxCancelled = TRUE]
  /\ UNCHANGED notClaude

\* one attempt: ExtractFacts from the request to the return, then the test
\* of the retry loop; under a cancelled context Do returns an error
ClaudeAttempt(reply) ==
  /\ claude.pc = "call"
  /\ claude.ctxCancelled => reply.do = "error"
  /\ LET err == ExtractFactsReturn(reply) IN
       claude' = [claude EXCEPT
         !.calls = Append(@, [reply |-> reply, err |-> err]),
         !.pc = IF err = NoErr \/ ~IsRetryable(err) THEN "done" ELSE "backoff",
         !.end = err]
  /\ UNCHANGED notClaude

\* time.After(Backoff(attempt)) fires: the next attempt, if one is left
ClaudeBackoffElapsed ==
  /\ claude.pc = "backoff"
  /\ claude' = [claude EXCEPT
       !.attempt = @ + 1,
       !.pc = IF claude.attempt + 1 < MaxRetries THEN "call" ELSE "done"]
  /\ UNCHANGED notClaude

\* ctx.Done() wins the select: the chunk ends with ctx.Err()
ClaudeBackoffCancelled ==
  /\ claude.pc = "backoff"
  /\ claude.ctxCancelled
  /\ claude' = [claude EXCEPT !.pc = "done", !.end = "context canceled"]
  /\ UNCHANGED notClaude

ClaudeNext ==
  \/ ClaudeCancel
  \/ \E reply \in Replies : ClaudeAttempt(reply)
  \/ ClaudeBackoffElapsed
  \/ ClaudeBackoffCancelled

ClaudeSpec == ClaudeInit /\ [][ClaudeNext]_vars

\* C28: every call of ExtractFacts records one latency sample: once the
\* chunk is done, the stats hold as many samples as calls were made.
C28_SamplePerCall ==
  claude.pc = "done" => Len(stats.samples) = Len(claude.calls)

\* C29: a response is classified retryable exactly when its status is 429 or
\* at least 500; every other failure is an error for which IsRetryable is false.
C29_Classification ==
  \A k \in DOMAIN claude.calls :
    LET reply == claude.calls[k].reply
        err == claude.calls[k].err
    IN /\ reply.do = "ok" => (IsRetryable(err) <=> (reply.status = 429 \/ reply.status >= 500))
       /\ reply.do = "error" => err # NoErr /\ ~IsRetryable(err)

\* C30: a job whose file has no parser or does not parse ends failed/parsing;
\* a job whose tree gives no chunk ends failed/chunking with the error "no
\* extractable content"; either has one error entry, and no LLM call and no
\* pathstore PUT is made for it at any time.
C30_EarlyFailure ==
  \A j \in Jobs :
    LET d == job[j].doc
        noParse == ParseOutcome(d) # "ok"
        noChunk == ParseOutcome(d) = "ok" /\ NumChunks(d) = 0
        ended == job[j].status \in Terminal /\ job[j].phase # "queue_full"
    IN /\ (job[j].status # "none" /\ (noParse \/ noChunk)) => (obs[j].llmCalls = 0 /\ obs[j].puts = 0)
       /\ (ended /\ noParse) =>
            /\ job[j].status = "failed" /\ job[j].phase = "parsing"
            /\ job[j].errors = << <<ParseOutcome(d)>> >>
       /\ (ended /\ noChunk) =>
            /\ job[j].status = "failed" /\ job[j].phase = "chunking"
            /\ job[j].errors = << <<"no extractable content">> >>

\* one job has ended failed/parsing and another failed/chunking
C30_Witness ==
  \E i, j \in Jobs :
    /\ ParseOutcome(job[i].doc) # "ok" /\ job[i].status = "failed" /\ job[i].phase = "parsing"
    /\ NumChunks(job[j].doc) = 0 /\ job[j].status = "failed" /\ job[j].phase = "chunking"
    /\ Len(job[i].errors) = 1 /\ Len(job[j].errors) = 1
\* C31: a failure of the duplicate-check listing neither ends the job nor
\* marks it duplicate_skipped: the step that meets the failure sets the job
\* to chunking and adds no error entry.
C31_ListingFailure ==
  [][\A j \in Jobs :
       (obs[j].listing = "none" /\ obs'[j].listing = "error")
         => /\ job'[j].status = "chunking" /\ job'[j].phase = "chunking"
            /\ job'[j].errors = job[j].errors]_vars

\* a job whose listing failed while the entry of its content was in the hash
\* index, and which went through chunking to the end of the pipeline
C31_Witness ==
  \E j \in Jobs :
    /\ obs[j].listing = "error"
    /\ \E e \in hashIndex : e.user = job[j].user /\ e.hash = ContentHash(job[j].doc)
    /\ job[j].status \in {"completed", "partial"}
    /\ job[j].totalChunks > 0

\* C32: every fact for which a PUT is issued was returned by a successful
\* extraction call of the same job and passed ValidateFact; no rejected fact
\* is written; once the extraction phase is over, factsValid is the number of
\* returned facts that passed, and no more fact PUTs are issued than that.
C32_OnlyValidatedFacts ==
  \A j \in Jobs :
    /\ \A f \in obs[j].written :
         /\ Valid(f) /\ ~MatchInjection(f.text)
         /\ \E g \in obs[j].returned : Valid(g) /\ f = ValidateFact(g).f
    /\ obs[j].putOk + obs[j].putFail <= obs[j].passed
    /\ (job[j].status \in {"storing", "completed", "partial"}
          \/ (job[j].status = "failed" /\ job[j].phase \in {"extracting", "storing"}))
         => job[j].factsValid = obs[j].passed

\* a two-chunk job got a good fact and an injected one, counted one valid
\* fact and wrote the good one only
C32_Witness ==
  \E j \in Jobs :
    /\ obs[j].returned = {GoodFact, InjectedFact}
    /\ obs[j].written = {GoodFact}
    /\ job[j].factsValid = 1 /\ job[j].factsStored = 1
    /\ job[j].status = "completed"

\* the entries "chunk idx: ..." of an error list
ChunkEntries(errors, idx) ==
  {k \in DOMAIN errors : Len(errors[k]) = 3 /\ errors[k][1] = "chunk" /\ errors[k][2] = idx}

\* C33: when a job is about to leave the extracting status, every chunk has
\* yielded one result: chunksProcessed = totalChunks = the number of chunks,
\* and the error list holds one entry "chunk idx: err" for each chunk that
\* ended with an error, under its own index, and nothing else.
C33_OneResultPerChunk ==
  \A w \in Workers :
    proc[w].pc = "extracted" =>
      LET j == proc[w].job
          ext == proc[w].ext
          failedChunks == {i \in DOMAIN ext : ext[i].end # NoErr}
      IN /\ job[j].status = "extracting"
         /\ job[j].chunksProcessed = job[j].totalChunks
         /\ job[j].totalChunks = Len(ext)
         /\ \A i \in DOMAIN ext : ext[i].end # "none"
         /\ \A i \in failedChunks :
              /\ Cardinality(ChunkEntries(job[j].errors, i - 1)) = 1
              /\ \A k \in ChunkEntries(job[j].errors, i - 1) : job[j].errors[k][3] = ext[i].end
         /\ Len(job[j].errors) = Cardinality(failedChunks)

\* both chunks of a job failed, the second one first, one of them by
\* cancellation
C33_Witness ==
  \E w \in Workers :
    /\ proc[w].pc = "extracted"
    /\ Len(proc[w].ext) = 2
    /\ Len(job[proc[w].job].errors) = 2
    /\ job[proc[w].job].errors[1][2] = 1
    /\ job[proc[w].job].errors[2] = <<"chunk", 0, "context canceled">>

\* a job that was passed to Process and is in no worker's hands any more
Processed(j) ==
  /\ Len(job[j].hist) >= 2 /\ job[j].hist[2] = "parsing"
  /\ \A w \in Workers : proc[w].job # j

\* C34: every job a worker dequeues reaches a terminal status, given that
\* every LLM and pathstore call returns: the fan-outs and the collection
\* loops do not deadlock, and every return of Process leaves the job
\* completed, partial, failed or duplicate_skipped.
C34_JobTerminates ==
  /\ [](\A j \in Jobs : Processed(j) => job[j].status \in Terminal)
  /\ \A j \in Jobs : (job[j].status = "parsing") ~> (job[j].status \in Terminal)

\* two chunks and two facts went through fan-outs of width one
C34_Witness ==
  \E j \in Jobs :
    /\ cfg.maxConcurrentExtract = 1 /\ cfg.maxConcurrentStore = 1
    /\ job[j].totalChunks = 2 /\ job[j].chunksProcessed = 2
    /\ job[j].factsValid = 2 /\ job[j].factsStored = 2
    /\ Processed(j) /\ job[j].status = "completed"

\* C35: once Stop has cancelled the shared context, no worker takes a job
\* out of the queue: a job waiting in the queue stays in status queued.
C35_NoDequeueAfterCancel ==
  [][cancelled =>
       \A k \in DOMAIN queue : job'[queue[k]].status = job[queue[k]].status]_vars

\* C36: a Submit that runs while or after Stop runs never sends on the
\* closed queue: its select either enqueues the job or takes the default
\* branch and returns the error.
C36_NoSendOnClosed ==
  \A j \in Jobs : submitRes[j] \in {"none", "nil", "default", "error"}

\* jobs of a user and content that ended completed or partial, or are still
\* in their storing phase
Succeeding(u, h) ==
  {i \in Jobs : /\ job[i].user = u /\ ContentHash(job[i].doc) = h
                /\ job[i].status \in {"completed", "partial", "storing"}}

\* C37: a hash-index entry is written only by a job that ends completed or
\* partial: every entry belongs to such a job (or one still storing), a job
\* that ended failed has left none, and a job is duplicate_skipped only after
\* such a job of the same user and content.
C37_HashIndexWriters ==
  /\ \A e \in hashIndex : Succeeding(e.user, e.hash) # {}
  /\ \A j \in Jobs :
       job[j].status = "duplicate_skipped"
         => Succeeding(job[j].user, ContentHash(job[j].doc)) \ {j} # {}

\* C38: a deletion in which every call succeeded leaves none of the fact
\* nodes the ingestion wrote, whatever the outcomes of the manifest PUTs of
\* the ingestion were.
C38_DeleteRemovesFacts ==
  (del.pc = "done" /\ del.status = 200 /\ del.errs = 0) => del.ps.facts = {}

\* C39: within a job the phases do not overlap. A store goroutine exists only
\* when the results of all chunks have been collected; the meta PUT is issued
\* when every fact PUT and manifest PUT has returned and its result has been
\* collected, and the hash-index PUT after the meta PUT. The PUTs a job has
\* issued are counted: two per stored fact, one per failed fact PUT, then
\* meta, then hash.
C39_PhasesInOrder ==
  \A w \in Workers :
    LET p == proc[w]
        j == p.job
        factPuts == 2 * obs[j].putOk + obs[j].putFail
        storeOver == /\ \A k \in DOMAIN p.st : p.st[k] = "done"
                     /\ p.scollected = Len(p.st) /\ p.sresults = <<>>
    IN /\ (\E k \in DOMAIN p.st : p.st[k] # "idle")
            => /\ p.collected = Len(p.ext) /\ p.results = <<>>
               /\ \A i \in DOMAIN p.ext : p.ext[i].st = "done"
               /\ job[j].chunksProcessed = job[j].totalChunks
       /\ p.pc = "meta" => (storeOver /\ obs[j].puts = factPuts)
       /\ p.pc = "hash" => (storeOver /\ obs[j].puts = factPuts + 1)
       /\ p.pc = "final" => (storeOver /\ obs[j].puts = factPuts + 2)

\* the hash-index PUT of a job has been issued after two facts were stored
\* by two store goroutines at a time
C39_Witness ==
  \E w \in Workers :
    /\ proc[w].pc = "final"
    /\ cfg.maxConcurrentStore = 2
    /\ Len(proc[w].st) = 2 /\ obs[proc[w].job].putOk = 2
    /\ obs[proc[w].job].puts = 6

\* C40: a backoff wait happens only between two attempts: once the last
\* permitted attempt of a chunk has failed with a retryable error the chunk
\* is not in a backoff wait, and its result carries that LLM error.
C40_NoWaitAfterLastAttempt ==
  \A w \in Workers : \A i \in DOMAIN proc[w].ext :
    LET c == proc[w].ext[i] IN
      (Len(c.rets) = MaxRetries /\ IsRetryable(c.rets[MaxRetries].err))
        => /\ c.st # "backoff"
           /\ c.st = "done" => c.end = c.rets[MaxRetries].err

====
